---- MODULE Spec2Model ----
(***************************************************************************)
(* The AskPandas demonstration and smoke-test scripts as a state machine.  *)
(* One run = one script (chosen in Init) executed from its entry point.    *)
(* Every call into the askpandas library is an input of the model:         *)
(* it returns normally or raises, and is_available() returns True or False *)
(* or raises.  The run is recorded in `trace`, one event per library call, *)
(* function call/return and significant print.                             *)
(***************************************************************************)
EXTENDS Integers, Sequences, FiniteSets

VARIABLES
    script,   \* the script being run
    pc,       \* position in the script; "done" = entry point returned, "crashed" = exception left it
    trace,    \* the events of the run so far, in order
    llm,      \* the library's globally configured LLM ("none" until set_llm succeeds)
    ret,      \* return value of the function that returned last
    mi,       \* setup_lightweight_ollama: index of `model` in light_models
    qi,       \* chat loops: index of `query` in the query list
    df,       \* comprehensive_test.main: the local `df` ("unset", "None" or "frame")
    files,    \* CSV files written so far by the run
    config,   \* the library's global configuration (ap.get_config())
    previous, \* how the run before this one in the same directory ended ("none": no such run)
    customer_id,       \* create_comprehensive_sample_data: data['customer_id']
    duplicate_indices, \* create_comprehensive_sample_data: the indices the loop has still to visit
    np_random_state,   \* state of NumPy's global generator (np.random)
    random_state,      \* state of the generator of Python's `random` module
    now,               \* the day datetime.now() falls on
    tables             \* the tables the data-generating calls have returned, in order

\* the variables only the data generators read or write
gen_vars == <<np_random_state, random_state, now, tables>>

vars == <<script, pc, trace, llm, ret, mi, qi, df, files, config, previous,
          customer_id, duplicate_indices, np_random_state, random_state, now, tables>>

Scripts == {"simple_config", "demo", "simple_demo", "complete_workflow_demo",
            "final_working_demo", "working_demo", "comprehensive_test",
            "test_basic_functionality"}

\* ------------------------------------------------------------------ events

Ev(op, arg, n, res) == [op |-> op, arg |-> arg, n |-> n, res |-> res]

Call(f)       == Ev("call", f, 0, "")
Return(f, v)  == Ev("return", f, 0, v)
Raise(f)      == Ev("raise", f, 0, "")
Caught(f)     == Ev("caught", f, 0, "")
Out(msg)      == Ev("print", msg, 0, "")
Ctor(m, r)    == Ev("ctor", m, 0, r)
Probe(m, r)   == Ev("probe", m, 0, r)
SetLlm(m, r)  == Ev("set_llm", m, 0, r)
Chat(t, n, r) == Ev("chat", t, n, r)
SetConfig(k, v) == Ev("set_config", k, 0, v)
Load(path, r) == Ev("load", path, 0, r)

Outcomes      == {"ok", "raise"}
ProbeResults  == {"True", "False", "raise"}

Log(es) == trace' = trace \o es

Has(e)      == \E i \in 1..Len(trace) : trace[i] = e
HasOp(op)   == \E i \in 1..Len(trace) : trace[i].op = op
Printed(m)  == Has(Out(m))
Count(op)   == Cardinality({i \in 1..Len(trace) : trace[i].op = op})

\* ap.set_llm(llm): the library installs the model as the global LLM when the
\* call returns normally.
set_llm(m, r) == IF r = "ok" THEN m ELSE llm

\* the configuration keys the scripts pass to ap.set_config or read from
\* ap.get_config(), in one fixed order
config_key_order == <<"verbose", "plot_style", "output_dir", "max_execution_time",
                      "enable_history", "temperature">>

config_keys == {config_key_order[i] : i \in 1..Len(config_key_order)}

\* the configuration before any set_config call: every key at the library's default
default_config == [k \in config_keys |-> "default"]

\* ap.set_config(**kwargs): the library stores each keyword passed under its key
\* and keeps every other key; ap.get_config() returns the stored configuration.
set_config(cfg, kwargs) ==
    [k \in DOMAIN cfg |-> IF k \in DOMAIN kwargs THEN kwargs[k] ELSE cfg[k]]

\* the events of one set_config(**kwargs) call: one per keyword
Kwargs(kwargs) ==
    LET ks == SelectSeq(config_key_order, LAMBDA k : k \in DOMAIN kwargs)
    IN  [i \in 1..Len(ks) |-> SetConfig(ks[i], kwargs[ks[i]])]

\* the first n of the set_config calls `calls`, applied in order / as events
RECURSIVE SetConfigs(_, _, _)
SetConfigs(cfg, calls, n) ==
    IF n = 0 THEN cfg ELSE set_config(SetConfigs(cfg, calls, n - 1), calls[n])

RECURSIVE KwargsOf(_, _)
KwargsOf(calls, n) ==
    IF n = 0 THEN <<>> ELSE KwargsOf(calls, n - 1) \o Kwargs(calls[n])

\* a function of the script with no exception handling of its own: every
\* library call in it either returns, and the function returns `v` and control
\* goes to `next`, or one raises and the exception leaves the function to `handler`
Plain(f, v, next, handler) ==
    \E r \in Outcomes :
        /\ Log(IF r = "ok" THEN <<Call(f), Return(f, v)>> ELSE <<Call(f), Raise(f)>>)
        /\ pc' = IF r = "ok" THEN next ELSE handler
        /\ ret' = IF r = "ok" THEN v ELSE ret

\* variant of ChatLoop whose except clause ends the loop: after a query that
\* raised, f returns without submitting the remaining ones
ChatLoopBreaks(f, target, nq, v, next) ==
    \E r \in Outcomes :
        /\ Log(<<Chat(target, qi, r)>>
               \o (IF r = "raise" THEN <<Caught(f)>> ELSE <<>>)
               \o (IF qi = nq \/ r = "raise" THEN <<Return(f, v)>> ELSE <<>>))
        /\ IF qi = nq \/ r = "raise"
           THEN pc' = next /\ qi' = 0 /\ ret' = v
           ELSE pc' = pc /\ qi' = qi + 1 /\ ret' = ret

\* one iteration of a chat loop `for query in queries: try: <target>.chat(query)
\* except Exception: print(...)` inside function f; after the last query f
\* returns `v` and control goes to `next`
ChatLoop(f, target, nq, v, next) ==
    \E r \in Outcomes :
        /\ Log(<<Chat(target, qi, r)>>
               \o (IF r = "raise" THEN <<Caught(f)>> ELSE <<>>)
               \o (IF qi = nq THEN <<Return(f, v)>> ELSE <<>>))
        /\ IF qi = nq
           THEN pc' = next /\ qi' = 0 /\ ret' = v
           ELSE pc' = pc /\ qi' = qi + 1 /\ ret' = ret

\* the statements of function f that precede its chat loop (building the
\* adapters with ap.DataFrame, printing info()): none is inside a try block
Prologue(f, loop, handler) ==
    \E r \in Outcomes :
        /\ Log(IF r = "ok" THEN <<Call(f)>> ELSE <<Call(f), Raise(f)>>)
        /\ pc' = IF r = "ok" THEN loop ELSE handler
        /\ qi' = IF r = "ok" THEN 1 ELSE qi

\* a test function whose whole body is `try: ... print("<label> passed")
\* except Exception as e: print("<label> failed: ...")`: it returns None either way
Guarded(f, label, next) ==
    \E r \in Outcomes :
        /\ Log(IF r = "ok"
               THEN <<Call(f), Out(label \o " passed"), Return(f, "None")>>
               ELSE <<Call(f), Caught(f), Out(label \o " failed"), Return(f, "None")>>)
        /\ pc' = next
        /\ ret' = "None"

\* Plain for a function that makes the set_config calls `calls` in order among
\* its library calls: the first n of them have returned when a call raises
\* (all of them when none does)
PlainConfig(f, v, next, handler, calls) ==
    \E r \in Outcomes, n \in 0..Len(calls) :
        /\ r = "ok" => n = Len(calls)
        /\ Log(<<Call(f)>> \o KwargsOf(calls, n)
               \o <<IF r = "ok" THEN Return(f, v) ELSE Raise(f)>>)
        /\ config' = SetConfigs(config, calls, n)
        /\ pc' = IF r = "ok" THEN next ELSE handler
        /\ ret' = IF r = "ok" THEN v ELSE ret

\* Guarded for a test function that makes the set_config calls `calls` in order
GuardedConfig(f, label, next, calls) ==
    \E r \in Outcomes, n \in 0..Len(calls) :
        /\ r = "ok" => n = Len(calls)
        /\ Log(<<Call(f)>> \o KwargsOf(calls, n)
               \o (IF r = "ok"
                   THEN <<Out(label \o " passed"), Return(f, "None")>>
                   ELSE <<Caught(f), Out(label \o " failed"), Return(f, "None")>>))
        /\ config' = SetConfigs(config, calls, n)
        /\ pc' = next
        /\ ret' = "None"

\* ------------------------------------------------------------------ simple_config.py

light_models == <<"phi3:mini", "llama3.2:3b", "mistral:7b", "gemma:2b">>
hf_model     == "microsoft/DialoGPT-small"

\* __main__ calls auto_setup(), which calls setup_lightweight_ollama()
cfg_auto_setup ==
    /\ script = "simple_config" /\ pc = "start"
    /\ Log(<<Call("auto_setup"), Call("setup_lightweight_ollama")>>)
    /\ mi' = 1
    /\ pc' = "ollama_loop"
    /\ UNCHANGED <<script, gen_vars, customer_id, duplicate_indices, previous, config, llm, ret, qi, df, files>>

\* for model in light_models: try: llm = ap.OllamaLLM(model_name=model)
cfg_ollama_construct ==
    /\ script = "simple_config" /\ pc = "ollama_loop" /\ mi <= Len(light_models)
    /\ \E r \in Outcomes :
        /\ Log(<<Ctor(light_models[mi], r)>>
               \o (IF r = "raise" THEN <<Caught("setup_lightweight_ollama")>> ELSE <<>>))
        /\ IF r = "ok"
           THEN pc' = "ollama_probe" /\ mi' = mi
           ELSE pc' = "ollama_loop" /\ mi' = mi + 1
    /\ UNCHANGED <<script, gen_vars, customer_id, duplicate_indices, previous, config, llm, ret, qi, df, files>>

\* variant of cfg_ollama_probe that gives up the search when is_available()
\* returns False
cfg_ollama_probe_gives_up ==
    /\ script = "simple_config" /\ pc = "ollama_probe"
    /\ \E r \in ProbeResults :
        /\ Log(<<Probe(light_models[mi], r)>>
               \o (IF r = "raise" THEN <<Caught("setup_lightweight_ollama")>> ELSE <<>>)
               \o (IF r = "False" THEN <<Return("setup_lightweight_ollama", "False")>>
                   ELSE <<>>))
        /\ pc' = IF r = "True" THEN "ollama_set"
                 ELSE IF r = "False" THEN "auto_after_ollama" ELSE "ollama_loop"
        /\ mi' = IF r = "raise" THEN mi + 1 ELSE mi
        /\ ret' = IF r = "False" THEN "False" ELSE ret
    /\ UNCHANGED <<script, gen_vars, customer_id, duplicate_indices, previous, config, llm, qi, df, files>>

\* if llm.is_available(): ... (False falls through to the next model, an
\* exception is caught and `continue`s)
cfg_ollama_probe ==
    /\ script = "simple_config" /\ pc = "ollama_probe"
    /\ \E r \in ProbeResults :
        /\ Log(<<Probe(light_models[mi], r)>>
               \o (IF r = "raise" THEN <<Caught("setup_lightweight_ollama")>> ELSE <<>>))
        /\ IF r = "True"
           THEN pc' = "ollama_set" /\ mi' = mi
           ELSE pc' = "ollama_loop" /\ mi' = mi + 1
    /\ UNCHANGED <<script, gen_vars, customer_id, duplicate_indices, previous, config, llm, ret, qi, df, files>>

\* variant of cfg_ollama_set without the `return True`: the loop goes on to the
\* next model after a successful set_llm
cfg_ollama_set_no_return ==
    /\ script = "simple_config" /\ pc = "ollama_set"
    /\ \E r \in Outcomes :
        /\ llm' = set_llm(light_models[mi], r)
        /\ Log(<<SetLlm(light_models[mi], r)>>
               \o (IF r = "raise" THEN <<Caught("setup_lightweight_ollama")>> ELSE <<>>))
        /\ ret' = ret /\ pc' = "ollama_loop" /\ mi' = mi + 1
    /\ UNCHANGED <<script, gen_vars, customer_id, duplicate_indices, previous, config, qi, df, files>>

\* ap.set_llm(llm); print; return True   (an exception is caught and `continue`s)
cfg_ollama_set ==
    /\ script = "simple_config" /\ pc = "ollama_set"
    /\ \E r \in Outcomes :
        /\ llm' = set_llm(light_models[mi], r)
        /\ IF r = "ok"
           THEN /\ Log(<<SetLlm(light_models[mi], r),
                         Return("setup_lightweight_ollama", "True")>>)
                /\ ret' = "True" /\ pc' = "auto_after_ollama" /\ mi' = mi
           ELSE /\ Log(<<SetLlm(light_models[mi], r), Caught("setup_lightweight_ollama")>>)
                /\ ret' = ret /\ pc' = "ollama_loop" /\ mi' = mi + 1
    /\ UNCHANGED <<script, gen_vars, customer_id, duplicate_indices, previous, config, qi, df, files>>

\* the for loop is exhausted: print("No lightweight models available"); return False
cfg_ollama_none ==
    /\ script = "simple_config" /\ pc = "ollama_loop" /\ mi > Len(light_models)
    /\ Log(<<Out("No lightweight models available"),
             Return("setup_lightweight_ollama", "False")>>)
    /\ ret' = "False" /\ pc' = "auto_after_ollama"
    /\ UNCHANGED <<script, gen_vars, customer_id, duplicate_indices, previous, config, llm, mi, qi, df, files>>

\* variant of cfg_auto_after_ollama that tries Hugging Face whatever
\* setup_lightweight_ollama() returned
cfg_auto_after_ollama_always_hf ==
    /\ script = "simple_config" /\ pc = "auto_after_ollama"
    /\ Log(<<Call("setup_huggingface_lightweight")>>) /\ pc' = "hf_ctor"
    /\ UNCHANGED <<script, gen_vars, customer_id, duplicate_indices, previous, config, llm, ret, mi, qi, df, files>>

\* auto_setup: if setup_lightweight_ollama(): return True; otherwise call
\* setup_huggingface_lightweight()
cfg_auto_after_ollama ==
    /\ script = "simple_config" /\ pc = "auto_after_ollama"
    /\ IF ret = "True"
       THEN Log(<<Return("auto_setup", "True")>>) /\ pc' = "main_after_auto"
       ELSE Log(<<Call("setup_huggingface_lightweight")>>) /\ pc' = "hf_ctor"
    /\ UNCHANGED <<script, gen_vars, customer_id, duplicate_indices, previous, config, llm, ret, mi, qi, df, files>>

\* try: llm = ap.HuggingFaceLLM(...)   except: return False
cfg_hf_construct ==
    /\ script = "simple_config" /\ pc = "hf_ctor"
    /\ \E r \in Outcomes :
        IF r = "ok"
        THEN Log(<<Ctor(hf_model, r)>>) /\ pc' = "hf_probe" /\ ret' = ret
        ELSE /\ Log(<<Ctor(hf_model, r), Caught("setup_huggingface_lightweight"),
                      Return("setup_huggingface_lightweight", "False")>>)
             /\ pc' = "auto_after_hf" /\ ret' = "False"
    /\ UNCHANGED <<script, gen_vars, customer_id, duplicate_indices, previous, config, llm, mi, qi, df, files>>

\* variant of cfg_hf_probe that constructs and probes the model again when
\* is_available() returns False
cfg_hf_probe_retries ==
    /\ script = "simple_config" /\ pc = "hf_probe"
    /\ \E r \in ProbeResults :
        IF r = "raise"
        THEN /\ Log(<<Probe(hf_model, r), Caught("setup_huggingface_lightweight"),
                      Return("setup_huggingface_lightweight", "False")>>)
             /\ pc' = "auto_after_hf" /\ ret' = "False"
        ELSE /\ Log(<<Probe(hf_model, r)>>)
             /\ pc' = (IF r = "True" THEN "hf_set" ELSE "hf_ctor") /\ ret' = ret
    /\ UNCHANGED <<script, gen_vars, customer_id, duplicate_indices, previous, config, llm, mi, qi, df, files>>

\* if llm.is_available(): ... else: return False   except: return False
cfg_hf_probe ==
    /\ script = "simple_config" /\ pc = "hf_probe"
    /\ \E r \in ProbeResults :
        IF r = "True"
        THEN Log(<<Probe(hf_model, r)>>) /\ pc' = "hf_set" /\ ret' = ret
        ELSE /\ Log(<<Probe(hf_model, r)>>
                    \o (IF r = "raise" THEN <<Caught("setup_huggingface_lightweight")>> ELSE <<>>)
                    \o <<Return("setup_huggingface_lightweight", "False")>>)
             /\ pc' = "auto_after_hf" /\ ret' = "False"
    /\ UNCHANGED <<script, gen_vars, customer_id, duplicate_indices, previous, config, llm, mi, qi, df, files>>

\* ap.set_llm(llm); return True   except: return False
cfg_hf_set ==
    /\ script = "simple_config" /\ pc = "hf_set"
    /\ \E r \in Outcomes :
        /\ llm' = set_llm(hf_model, r)
        /\ IF r = "ok"
           THEN /\ Log(<<SetLlm(hf_model, r), Return("setup_huggingface_lightweight", "True")>>)
                /\ ret' = "True"
           ELSE /\ Log(<<SetLlm(hf_model, r), Caught("setup_huggingface_lightweight"),
                         Return("setup_huggingface_lightweight", "False")>>)
                /\ ret' = "False"
        /\ pc' = "auto_after_hf"
    /\ UNCHANGED <<script, gen_vars, customer_id, duplicate_indices, previous, config, mi, qi, df, files>>

\* auto_setup: if setup_huggingface_lightweight(): return True; print help; return False
cfg_auto_after_hf ==
    /\ script = "simple_config" /\ pc = "auto_after_hf"
    /\ IF ret = "True"
       THEN Log(<<Return("auto_setup", "True")>>)
       ELSE Log(<<Out("No lightweight models could be set up"), Return("auto_setup", "False")>>)
    /\ pc' = "main_after_auto"
    /\ UNCHANGED <<script, gen_vars, customer_id, duplicate_indices, previous, config, llm, ret, mi, qi, df, files>>

\* __main__: if auto_setup(): show_current_config(); print("Ready") else: print("Manual setup required")
\* show_current_config calls ap.get_config() outside any try block
cfg_main ==
    /\ script = "simple_config" /\ pc = "main_after_auto"
    /\ IF ret = "True"
       THEN \E r \in Outcomes :
              IF r = "ok"
              THEN /\ Log(<<Call("show_current_config"), Return("show_current_config", "None"),
                            Out("Ready to use AskPandas!")>>)
                   /\ pc' = "done"
              ELSE /\ Log(<<Call("show_current_config"), Raise("show_current_config")>>)
                   /\ pc' = "crashed"
       ELSE Log(<<Out("Manual setup required")>>) /\ pc' = "done"
    /\ UNCHANGED <<script, gen_vars, customer_id, duplicate_indices, previous, config, llm, ret, mi, qi, df, files>>

simple_config ==
    \/ cfg_auto_setup \/ cfg_ollama_construct \/ cfg_ollama_probe \/ cfg_ollama_set
    \/ cfg_ollama_none \/ cfg_auto_after_ollama \/ cfg_hf_construct \/ cfg_hf_probe
    \/ cfg_hf_set \/ cfg_auto_after_hf \/ cfg_main

\* ------------------------------------------------------------------ demo.py

demo_model == "mistral"

\* the query lists of demo_basic_queries, demo_visualizations, demo_advanced_analysis
demo_basic_queries_list ==
    << "What is the total revenue?",
       "Show the top 5 regions by total sales",
       "What is the average order value?",
       "How many customers do we have in each segment?" >>

demo_viz_queries ==
    << "Create a bar chart showing total revenue by region",
       "Plot a line chart of daily sales over time",
       "Show a scatter plot of quantity vs price",
       "Create a histogram of order quantities" >>

demo_advanced_queries ==
    << "What is the correlation between customer segment and order value?",
       "Show the top 10 customers by total revenue with their segments",
       "Analyze sales performance by product and region",
       "Find any outliers in the price data" >>

\* create_sample_data: the two CSV files it writes, in the order it writes them
demo_files == <<"demo_sales.csv", "demo_customers.csv">>

\* variant of demo_create_sample_data that writes the sales file only
demo_create_sample_data_sales_only ==
    /\ script = "demo" /\ pc = "start"
    /\ \E w \in 0..1 :
        /\ files' = files \cup (IF w = 1 THEN {demo_files[1]} ELSE {})
        /\ Log(IF w = 1
               THEN <<Call("create_sample_data"), Return("create_sample_data", "frames")>>
               ELSE <<Call("create_sample_data"), Raise("create_sample_data")>>)
        /\ pc' = IF w = 1 THEN "setup_ctor" ELSE "crashed"
    /\ UNCHANGED <<script, gen_vars, customer_id, duplicate_indices, previous, config, llm, ret, mi, qi, df>>

\* main: sales_df, customer_df = create_sample_data()  (pandas only, no askpandas
\* call; sales_df.to_csv then customer_df.to_csv write the two files, and a
\* failed write raises out of main, which calls it outside the try block)
demo_create_sample_data ==
    /\ script = "demo" /\ pc = "start"
    /\ \E w \in 0..2 :
        /\ files' = files \cup {demo_files[i] : i \in 1..w}
        /\ Log(IF w = 2
               THEN <<Call("create_sample_data"), Return("create_sample_data", "frames")>>
               ELSE <<Call("create_sample_data"), Raise("create_sample_data")>>)
        /\ pc' = IF w = 2 THEN "setup_ctor" ELSE "crashed"
    /\ UNCHANGED <<script, gen_vars, customer_id, duplicate_indices, previous, config, llm, ret, mi, qi, df>>

\* setup_llm: try: llm = ap.OllamaLLM(model_name="mistral")   except: return False
demo_setup_llm_construct ==
    /\ script = "demo" /\ pc = "setup_ctor"
    /\ \E r \in Outcomes :
        IF r = "ok"
        THEN Log(<<Call("setup_llm"), Ctor(demo_model, r)>>) /\ pc' = "setup_probe" /\ ret' = ret
        ELSE /\ Log(<<Call("setup_llm"), Ctor(demo_model, r), Caught("setup_llm"),
                      Return("setup_llm", "False")>>)
             /\ pc' = "after_setup" /\ ret' = "False"
    /\ UNCHANGED <<script, gen_vars, customer_id, duplicate_indices, previous, config, llm, mi, qi, df, files>>

\* variant of demo_setup_llm_probe that forgets the `if`: whatever is_available()
\* returns, set_llm follows
demo_setup_llm_probe_unchecked ==
    /\ script = "demo" /\ pc = "setup_probe"
    /\ \E r \in ProbeResults :
        IF r # "raise"
        THEN Log(<<Probe(demo_model, r)>>) /\ pc' = "setup_set" /\ ret' = ret
        ELSE /\ Log(<<Probe(demo_model, r), Caught("setup_llm"), Return("setup_llm", "False")>>)
             /\ pc' = "after_setup" /\ ret' = "False"
    /\ UNCHANGED <<script, gen_vars, customer_id, duplicate_indices, previous, config, llm, mi, qi, df, files>>

\* setup_llm: if llm.is_available(): ... else: return False   except: return False
demo_setup_llm_probe ==
    /\ script = "demo" /\ pc = "setup_probe"
    /\ \E r \in ProbeResults :
        IF r = "True"
        THEN Log(<<Probe(demo_model, r)>>) /\ pc' = "setup_set" /\ ret' = ret
        ELSE /\ Log(<<Probe(demo_model, r)>>
                    \o (IF r = "raise" THEN <<Caught("setup_llm")>> ELSE <<>>)
                    \o <<Return("setup_llm", "False")>>)
             /\ pc' = "after_setup" /\ ret' = "False"
    /\ UNCHANGED <<script, gen_vars, customer_id, duplicate_indices, previous, config, llm, mi, qi, df, files>>

\* setup_llm: ap.set_llm(llm); return True   except: return False
demo_setup_llm_set ==
    /\ script = "demo" /\ pc = "setup_set"
    /\ \E r \in Outcomes :
        /\ llm' = set_llm(demo_model, r)
        /\ IF r = "ok"
           THEN Log(<<SetLlm(demo_model, r), Return("setup_llm", "True")>>) /\ ret' = "True"
           ELSE /\ Log(<<SetLlm(demo_model, r), Caught("setup_llm"), Return("setup_llm", "False")>>)
                /\ ret' = "False"
        /\ pc' = "after_setup"
    /\ UNCHANGED <<script, gen_vars, customer_id, duplicate_indices, previous, config, mi, qi, df, files>>

\* variant of demo_main_after_setup without the early return: the demos run
\* whatever setup_llm() returned
demo_main_after_setup_no_return ==
    /\ script = "demo" /\ pc = "after_setup"
    /\ IF ret = "True"
       THEN pc' = "basic_queries" /\ trace' = trace
       ELSE Log(<<Out("LLM not available")>>) /\ pc' = "basic_queries"
    /\ UNCHANGED <<script, gen_vars, customer_id, duplicate_indices, previous, config, llm, ret, mi, qi, df, files>>

\* main: if not setup_llm(): print("LLM not available..."); return
demo_main_after_setup ==
    /\ script = "demo" /\ pc = "after_setup"
    /\ IF ret = "True"
       THEN pc' = "basic_queries" /\ trace' = trace
       ELSE Log(<<Out("LLM not available"), Return("main", "None")>>) /\ pc' = "done"
    /\ UNCHANGED <<script, gen_vars, customer_id, duplicate_indices, previous, config, llm, ret, mi, qi, df, files>>

\* main's try block, in order
demo_basic_queries ==
    /\ script = "demo" /\ pc = "basic_queries"
    /\ Prologue("demo_basic_queries", "basic_chat", "except")
    /\ UNCHANGED <<script, gen_vars, customer_id, duplicate_indices, previous, config, llm, ret, mi, df, files>>

demo_basic_queries_chat ==
    /\ script = "demo" /\ pc = "basic_chat"
    /\ ChatLoop("demo_basic_queries", "ap.chat", Len(demo_basic_queries_list), "None", "visualizations")
    /\ UNCHANGED <<script, gen_vars, customer_id, duplicate_indices, previous, config, llm, mi, df, files>>

demo_visualizations ==
    /\ script = "demo" /\ pc = "visualizations"
    /\ Prologue("demo_visualizations", "viz_chat", "except")
    /\ UNCHANGED <<script, gen_vars, customer_id, duplicate_indices, previous, config, llm, ret, mi, df, files>>

demo_visualizations_chat ==
    /\ script = "demo" /\ pc = "viz_chat"
    /\ ChatLoop("demo_visualizations", "ap.chat", Len(demo_viz_queries), "None", "advanced_analysis")
    /\ UNCHANGED <<script, gen_vars, customer_id, duplicate_indices, previous, config, llm, mi, df, files>>

demo_advanced_analysis ==
    /\ script = "demo" /\ pc = "advanced_analysis"
    /\ Prologue("demo_advanced_analysis", "advanced_chat", "except")
    /\ UNCHANGED <<script, gen_vars, customer_id, duplicate_indices, previous, config, llm, ret, mi, df, files>>

demo_advanced_analysis_chat ==
    /\ script = "demo" /\ pc = "advanced_chat"
    /\ ChatLoop("demo_advanced_analysis", "ap.chat", Len(demo_advanced_queries), "None", "query_analysis")
    /\ UNCHANGED <<script, gen_vars, customer_id, duplicate_indices, previous, config, llm, mi, df, files>>

demo_query_analysis ==
    /\ script = "demo" /\ pc = "query_analysis"
    /\ Plain("demo_query_analysis", "None", "configuration", "except")
    /\ UNCHANGED <<script, gen_vars, customer_id, duplicate_indices, previous, config, llm, mi, qi, df, files>>

\* demo_configuration: get_config(); set_config(verbose=True, plot_style="seaborn");
\* get_config()
demo_configuration ==
    /\ script = "demo" /\ pc = "configuration"
    /\ PlainConfig("demo_configuration", "None", "utilities", "except",
                   <<[verbose |-> "True", plot_style |-> "seaborn"]>>)
    /\ UNCHANGED <<script, gen_vars, customer_id, duplicate_indices, previous, llm, mi, qi, df, files>>

demo_utilities ==
    /\ script = "demo" /\ pc = "utilities"
    /\ Plain("demo_utilities", "None", "finish", "except")
    /\ UNCHANGED <<script, gen_vars, customer_id, duplicate_indices, previous, config, llm, mi, qi, df, files>>

\* main: print("Demo completed successfully!") ... end of the try block
demo_main_finish ==
    /\ script = "demo" /\ pc = "finish"
    /\ Log(<<Out("Demo completed successfully!"), Return("main", "None")>>)
    /\ pc' = "done"
    /\ UNCHANGED <<script, gen_vars, customer_id, duplicate_indices, previous, config, llm, ret, mi, qi, df, files>>

\* main: except Exception as e: print(f"Demo failed: {e}"); traceback.print_exc()
demo_main_except ==
    /\ script = "demo" /\ pc = "except"
    /\ Log(<<Caught("main"), Out("Demo failed"), Return("main", "None")>>)
    /\ pc' = "done"
    /\ UNCHANGED <<script, gen_vars, customer_id, duplicate_indices, previous, config, llm, ret, mi, qi, df, files>>

demo ==
    \/ demo_create_sample_data \/ demo_setup_llm_construct \/ demo_setup_llm_probe
    \/ demo_setup_llm_set \/ demo_main_after_setup
    \/ demo_basic_queries \/ demo_basic_queries_chat
    \/ demo_visualizations \/ demo_visualizations_chat
    \/ demo_advanced_analysis \/ demo_advanced_analysis_chat
    \/ demo_query_analysis \/ demo_configuration \/ demo_utilities
    \/ demo_main_finish \/ demo_main_except

\* ------------------------------------------------------------------ simple_demo.py

sd_model == "phi3:mini"

\* main: show_manual_analysis() comes first and is outside any try block
sd_show_manual_analysis ==
    /\ script = "simple_demo" /\ pc = "start"
    /\ Plain("show_manual_analysis", "None", "setup_ctor", "crashed")
    /\ UNCHANGED <<script, gen_vars, customer_id, duplicate_indices, previous, config, llm, mi, qi, df, files>>

\* setup_simple_llm: try: llm = ap.OllamaLLM(model_name="phi3:mini")   except: return False
sd_setup_simple_llm_construct ==
    /\ script = "simple_demo" /\ pc = "setup_ctor"
    /\ \E r \in Outcomes :
        IF r = "ok"
        THEN Log(<<Call("setup_simple_llm"), Ctor(sd_model, r)>>) /\ pc' = "setup_probe" /\ ret' = ret
        ELSE /\ Log(<<Call("setup_simple_llm"), Ctor(sd_model, r), Caught("setup_simple_llm"), Return("setup_simple_llm", "False")>>)
             /\ pc' = "after_setup" /\ ret' = "False"
    /\ UNCHANGED <<script, gen_vars, customer_id, duplicate_indices, previous, config, llm, mi, qi, df, files>>

\* setup_simple_llm: if llm.is_available(): ... else: return False   except: return False
sd_setup_simple_llm_probe ==
    /\ script = "simple_demo" /\ pc = "setup_probe"
    /\ \E r \in ProbeResults :
        IF r = "True"
        THEN Log(<<Probe(sd_model, r)>>) /\ pc' = "setup_set" /\ ret' = ret
        ELSE /\ Log(<<Probe(sd_model, r)>>
                    \o (IF r = "raise" THEN <<Caught("setup_simple_llm")>> ELSE <<>>)
                    \o <<Return("setup_simple_llm", "False")>>)
             /\ pc' = "after_setup" /\ ret' = "False"
    /\ UNCHANGED <<script, gen_vars, customer_id, duplicate_indices, previous, config, llm, mi, qi, df, files>>

\* variant of sd_setup_simple_llm_set whose except block returns True as well
sd_setup_simple_llm_set_always_true ==
    /\ script = "simple_demo" /\ pc = "setup_set"
    /\ \E r \in Outcomes :
        /\ llm' = set_llm(sd_model, r)
        /\ Log(<<SetLlm(sd_model, r)>>
               \o (IF r = "raise" THEN <<Caught("setup_simple_llm")>> ELSE <<>>)
               \o <<Return("setup_simple_llm", "True")>>)
        /\ ret' = "True"
        /\ pc' = "after_setup"
    /\ UNCHANGED <<script, gen_vars, customer_id, duplicate_indices, previous, config, mi, qi, df, files>>

\* setup_simple_llm: ap.set_llm(llm); return True   except: return False
sd_setup_simple_llm_set ==
    /\ script = "simple_demo" /\ pc = "setup_set"
    /\ \E r \in Outcomes :
        /\ llm' = set_llm(sd_model, r)
        /\ IF r = "ok"
           THEN /\ Log(<<SetLlm(sd_model, r), Return("setup_simple_llm", "True")>>)
                /\ ret' = "True"
           ELSE /\ Log(<<SetLlm(sd_model, r), Caught("setup_simple_llm"),
                         Return("setup_simple_llm", "False")>>)
                /\ ret' = "False"
        /\ pc' = "after_setup"
    /\ UNCHANGED <<script, gen_vars, customer_id, duplicate_indices, previous, config, mi, qi, df, files>>

\* variant of sd_main_after_setup that does not look at what setup_simple_llm returned
sd_main_after_setup_always_queries ==
    /\ script = "simple_demo" /\ pc = "after_setup"
    /\ pc' = "simple_queries" /\ trace' = trace
    /\ UNCHANGED <<script, gen_vars, customer_id, duplicate_indices, previous, config, llm, ret, mi, qi, df, files>>

\* main: if setup_simple_llm(): demo_simple_queries() ... else: print(...)
sd_main_after_setup ==
    /\ script = "simple_demo" /\ pc = "after_setup"
    /\ IF ret = "True"
       THEN pc' = "simple_queries" /\ trace' = trace
       ELSE /\ Log(<<Out("Manual analysis completed successfully!"), Return("main", "None")>>)
            /\ pc' = "done"
    /\ UNCHANGED <<script, gen_vars, customer_id, duplicate_indices, previous, config, llm, ret, mi, qi, df, files>>

\* demo_simple_queries: create_simple_data(), ap.DataFrame(df), sales_df.head():
\* none inside a try block, and main calls demo_simple_queries outside one
sd_demo_simple_queries ==
    /\ script = "simple_demo" /\ pc = "simple_queries"
    /\ Prologue("demo_simple_queries", "simple_chat", "crashed")
    /\ UNCHANGED <<script, gen_vars, customer_id, duplicate_indices, previous, config, llm, ret, mi, df, files>>

\* demo_simple_queries: try: ap.chat(simple_queries[0], sales_df) except: print
\* then main prints "Full demo completed with AI!"
sd_demo_simple_queries_chat ==
    /\ script = "simple_demo" /\ pc = "simple_chat"
    /\ \E r \in Outcomes :
        Log(<<Chat("ap.chat", 1, r)>>
            \o (IF r = "raise" THEN <<Caught("demo_simple_queries")>> ELSE <<>>)
            \o <<Return("demo_simple_queries", "None"),
                 Out("Full demo completed with AI!"), Return("main", "None")>>)
    /\ pc' = "done" /\ qi' = 0
    /\ UNCHANGED <<script, gen_vars, customer_id, duplicate_indices, previous, config, llm, ret, mi, df, files>>

simple_demo ==
    \/ sd_show_manual_analysis \/ sd_setup_simple_llm_construct \/ sd_setup_simple_llm_probe
    \/ sd_setup_simple_llm_set \/ sd_main_after_setup
    \/ sd_demo_simple_queries \/ sd_demo_simple_queries_chat

\* ------------------------------------------------------------------ complete_workflow_demo.py

cw_model == "phi3:mini"
\* demo_ai_powered_queries: the query list, each text as its sequence of characters
cw_queries ==
    << <<"W","h","a","t"," ","i","s"," ","t","h","e"," ","t","o","t","a","l"," ","r","e","v","e","n","u","e","?">>,
       <<"S","h","o","w"," ","m","e"," ","t","h","e"," ","t","o","p"," ","5"," ","p","r","o","d","u","c","t","s"," ","b","y"," ","r","e","v","e","n","u","e">>,
       <<"C","a","l","c","u","l","a","t","e"," ","a","v","e","r","a","g","e"," ","o","r","d","e","r"," ","v","a","l","u","e"," ","b","y"," ","r","e","g","i","o","n">>,
       <<"H","o","w"," ","m","a","n","y"," ","s","a","l","e","s"," ","w","e","r","e"," ","m","a","d","e"," ","i","n"," ","e","a","c","h"," ","r","e","g","i","o","n","?">>,
       <<"S","h","o","w"," ","c","u","s","t","o","m","e","r"," ","d","i","s","t","r","i","b","u","t","i","o","n"," ","b","y"," ","s","e","g","m","e","n","t">> >>

upper_case == <<"A","B","C","D","E","F","G","H","I","J","K","L","M",
                "N","O","P","Q","R","S","T","U","V","W","X","Y","Z">>
lower_case == <<"a","b","c","d","e","f","g","h","i","j","k","l","m",
                "n","o","p","q","r","s","t","u","v","w","x","y","z">>

\* str.lower(): every upper-case letter replaced by its lower-case letter
lower(text) ==
    [i \in 1..Len(text) |->
        IF \E k \in 1..Len(upper_case) : upper_case[k] = text[i]
        THEN lower_case[CHOOSE k \in 1..Len(upper_case) : upper_case[k] = text[i]]
        ELSE text[i]]

\* `sub in text` for strings: sub occurs as a contiguous run of characters
contains(text, sub) ==
    \E i \in 1..(Len(text) + 1) :
        /\ i + Len(sub) - 1 <= Len(text)
        /\ SubSeq(text, i, i + Len(sub) - 1) = sub

\* variant of cw_target that looks for the plural "customers"
cw_target_plural(n) ==
    IF contains(lower(cw_queries[n]), <<"c","u","s","t","o","m","e","r","s">>)
    THEN "customer_ap.chat" ELSE "sales_ap.chat"

\* demo_ai_powered_queries: `if "customer" in query.lower()` picks the adapter
cw_target(n) ==
    IF contains(lower(cw_queries[n]), <<"c","u","s","t","o","m","e","r">>)
    THEN "customer_ap.chat" ELSE "sales_ap.chat"

\* main's try block, in order
cw_demo_basic_analysis ==
    /\ script = "complete_workflow_demo" /\ pc = "start"
    /\ Plain("demo_basic_analysis", "adapters", "ai_ctor", "except")
    /\ UNCHANGED <<script, gen_vars, customer_id, duplicate_indices, previous, config, llm, mi, qi, df, files>>

\* demo_ai_powered_queries: try: llm = ap.OllamaLLM(model_name="phi3:mini")   except: return False
cw_demo_ai_powered_queries_construct ==
    /\ script = "complete_workflow_demo" /\ pc = "ai_ctor"
    /\ \E r \in Outcomes :
        IF r = "ok"
        THEN Log(<<Call("demo_ai_powered_queries"), Ctor(cw_model, r)>>) /\ pc' = "ai_probe" /\ ret' = ret
        ELSE /\ Log(<<Call("demo_ai_powered_queries"), Ctor(cw_model, r), Caught("demo_ai_powered_queries"), Return("demo_ai_powered_queries", "False")>>)
             /\ pc' = "after_ai" /\ ret' = "False"
    /\ UNCHANGED <<script, gen_vars, customer_id, duplicate_indices, previous, config, llm, mi, qi, df, files>>

\* variant of cw_demo_ai_powered_queries_probe that goes on to the queries whatever
\* is_available() returned
cw_demo_ai_powered_queries_probe_ignored ==
    /\ script = "complete_workflow_demo" /\ pc = "ai_probe"
    /\ \E r \in ProbeResults :
        /\ Log(<<Probe(cw_model, r)>>)
        /\ pc' = IF r = "True" THEN "ai_set" ELSE "ai_basic"
        /\ ret' = ret
    /\ UNCHANGED <<script, gen_vars, customer_id, duplicate_indices, previous, config, llm, mi, qi, df, files>>

\* demo_ai_powered_queries: if llm.is_available(): ... else: return False   except: return False
cw_demo_ai_powered_queries_probe ==
    /\ script = "complete_workflow_demo" /\ pc = "ai_probe"
    /\ \E r \in ProbeResults :
        IF r = "True"
        THEN Log(<<Probe(cw_model, r)>>) /\ pc' = "ai_set" /\ ret' = ret
        ELSE /\ Log(<<Probe(cw_model, r)>>
                    \o (IF r = "raise" THEN <<Caught("demo_ai_powered_queries")>> ELSE <<>>)
                    \o <<Return("demo_ai_powered_queries", "False")>>)
             /\ pc' = "after_ai" /\ ret' = "False"
    /\ UNCHANGED <<script, gen_vars, customer_id, duplicate_indices, previous, config, llm, mi, qi, df, files>>

\* demo_ai_powered_queries: ap.set_llm(llm); print("LLM configured successfully!")   except: return False
cw_demo_ai_powered_queries_set ==
    /\ script = "complete_workflow_demo" /\ pc = "ai_set"
    /\ \E r \in Outcomes :
        /\ llm' = set_llm(cw_model, r)
        /\ IF r = "ok"
           THEN Log(<<SetLlm(cw_model, r)>>) /\ pc' = "ai_basic" /\ ret' = ret
           ELSE /\ Log(<<SetLlm(cw_model, r), Caught("demo_ai_powered_queries"), Return("demo_ai_powered_queries", "False")>>)
                /\ pc' = "after_ai" /\ ret' = "False"
    /\ UNCHANGED <<script, gen_vars, customer_id, duplicate_indices, previous, config, mi, qi, df, files>>

\* demo_ai_powered_queries: sales_ap, customer_ap = demo_basic_analysis()  (outside the try blocks
\* of demo_ai_powered_queries: an exception leaves it and reaches main's handler)
cw_demo_ai_powered_queries_basic ==
    /\ script = "complete_workflow_demo" /\ pc = "ai_basic"
    /\ \E r \in Outcomes :
        /\ Log(IF r = "ok"
               THEN <<Call("demo_basic_analysis"), Return("demo_basic_analysis", "adapters")>>
               ELSE <<Call("demo_basic_analysis"), Raise("demo_basic_analysis"), Raise("demo_ai_powered_queries")>>)
        /\ pc' = IF r = "ok" THEN "ai_chat" ELSE "except"
        /\ qi' = IF r = "ok" THEN 1 ELSE qi
    /\ UNCHANGED <<script, gen_vars, customer_id, duplicate_indices, previous, config, llm, ret, mi, df, files>>

\* demo_ai_powered_queries: for i, query in enumerate(queries, 1): try:
\* customer_ap.chat(query) or sales_ap.chat(query)  except: print;  return True
cw_demo_ai_powered_queries_chat ==
    /\ script = "complete_workflow_demo" /\ pc = "ai_chat"
    /\ ChatLoop("demo_ai_powered_queries", cw_target(qi), Len(cw_queries), "True", "after_ai")
    /\ UNCHANGED <<script, gen_vars, customer_id, duplicate_indices, previous, config, llm, mi, df, files>>

\* main: the value demo_ai_powered_queries() returned is not looked at
cw_demo_advanced_features ==
    /\ script = "complete_workflow_demo" /\ pc = "after_ai"
    /\ PlainConfig("demo_advanced_features", "True", "quality", "except",
                   <<[verbose |-> "True", plot_style |-> "seaborn",
                      output_dir |-> "demo_output"]>>)
    /\ UNCHANGED <<script, gen_vars, customer_id, duplicate_indices, previous, llm, mi, qi, df, files>>

cw_demo_data_quality_and_cleaning ==
    /\ script = "complete_workflow_demo" /\ pc = "quality"
    /\ Plain("demo_data_quality_and_cleaning", "True", "viz", "except")
    /\ UNCHANGED <<script, gen_vars, customer_id, duplicate_indices, previous, config, llm, mi, qi, df, files>>

cw_demo_visualization_setup ==
    /\ script = "complete_workflow_demo" /\ pc = "viz"
    /\ PlainConfig("demo_visualization_setup", "True", "finish", "except",
                   <<[plot_style |-> "ggplot", verbose |-> "True"]>>)
    /\ UNCHANGED <<script, gen_vars, customer_id, duplicate_indices, previous, llm, mi, qi, df, files>>

\* main: print("All demonstrations completed successfully!") ... end of the try block
cw_main_finish ==
    /\ script = "complete_workflow_demo" /\ pc = "finish"
    /\ Log(<<Out("All demonstrations completed successfully!"), Return("main", "None")>>)
    /\ pc' = "done"
    /\ UNCHANGED <<script, gen_vars, customer_id, duplicate_indices, previous, config, llm, ret, mi, qi, df, files>>

\* main: except Exception as e: print(f"Demo failed: {e}"); traceback.print_exc()
cw_main_except ==
    /\ script = "complete_workflow_demo" /\ pc = "except"
    /\ Log(<<Caught("main"), Out("Demo failed"), Return("main", "None")>>)
    /\ pc' = "done"
    /\ UNCHANGED <<script, gen_vars, customer_id, duplicate_indices, previous, config, llm, ret, mi, qi, df, files>>

complete_workflow_demo ==
    \/ cw_demo_basic_analysis
    \/ cw_demo_ai_powered_queries_construct \/ cw_demo_ai_powered_queries_probe
    \/ cw_demo_ai_powered_queries_set \/ cw_demo_ai_powered_queries_basic
    \/ cw_demo_ai_powered_queries_chat
    \/ cw_demo_advanced_features \/ cw_demo_data_quality_and_cleaning
    \/ cw_demo_visualization_setup \/ cw_main_finish \/ cw_main_except

\* ------------------------------------------------------------------ final_working_demo.py

fw_model == "phi3:mini"

\* demo_ai_powered_queries: the query list
fw_queries ==
    << "What is the total revenue?",
       "Show me the top 3 products by revenue",
       "Calculate average order value by region",
       "How many sales were made in each region?",
       "Show customer distribution by segment" >>

\* main's try block, in order: nine demos without AI
fw_demo_basic_analysis ==
    /\ script = "final_working_demo" /\ pc = "start"
    /\ Plain("demo_basic_analysis", "adapters", "methods", "except")
    /\ UNCHANGED <<script, gen_vars, customer_id, duplicate_indices, previous, config, llm, mi, qi, df, files>>

fw_demo_dataframe_methods ==
    /\ script = "final_working_demo" /\ pc = "methods"
    /\ Plain("demo_dataframe_methods", "adapters", "quality", "except")
    /\ UNCHANGED <<script, gen_vars, customer_id, duplicate_indices, previous, config, llm, mi, qi, df, files>>

fw_demo_data_quality_and_cleaning ==
    /\ script = "final_working_demo" /\ pc = "quality"
    /\ Plain("demo_data_quality_and_cleaning", "True", "viz", "except")
    /\ UNCHANGED <<script, gen_vars, customer_id, duplicate_indices, previous, config, llm, mi, qi, df, files>>

fw_demo_visualization_setup ==
    /\ script = "final_working_demo" /\ pc = "viz"
    /\ PlainConfig("demo_visualization_setup", "True", "configuration", "except",
                   <<[plot_style |-> "ggplot", verbose |-> "True"]>>)
    /\ UNCHANGED <<script, gen_vars, customer_id, duplicate_indices, previous, llm, mi, qi, df, files>>

fw_demo_configuration ==
    /\ script = "final_working_demo" /\ pc = "configuration"
    /\ PlainConfig("demo_configuration", "True", "models", "except",
                   <<[verbose |-> "True", plot_style |-> "seaborn",
                     output_dir |-> "demo_output", max_execution_time |-> "120",
                     enable_history |-> "True"]>>)
    /\ UNCHANGED <<script, gen_vars, customer_id, duplicate_indices, previous, llm, mi, qi, df, files>>

fw_demo_available_models ==
    /\ script = "final_working_demo" /\ pc = "models"
    /\ Plain("demo_available_models", "True", "query_analysis", "except")
    /\ UNCHANGED <<script, gen_vars, customer_id, duplicate_indices, previous, config, llm, mi, qi, df, files>>

\* demo_query_analysis: every ap.analyze_query(query) is inside `try: ... except Exception:
\* print(...)`; the function returns True either way
fw_demo_query_analysis ==
    /\ script = "final_working_demo" /\ pc = "query_analysis"
    /\ \E r \in Outcomes :
        Log(<<Call("demo_query_analysis")>>
            \o (IF r = "raise" THEN <<Caught("demo_query_analysis")>> ELSE <<>>)
            \o <<Return("demo_query_analysis", "True")>>)
    /\ pc' = "manual" /\ ret' = "True"
    /\ UNCHANGED <<script, gen_vars, customer_id, duplicate_indices, previous, config, llm, mi, qi, df, files>>

fw_demo_manual_analysis ==
    /\ script = "final_working_demo" /\ pc = "manual"
    /\ Plain("demo_manual_analysis", "True", "multi", "except")
    /\ UNCHANGED <<script, gen_vars, customer_id, duplicate_indices, previous, config, llm, mi, qi, df, files>>

\* variant of fw_demo_multi_dataframe_analysis whose exception does not end main's
\* sequence
fw_demo_multi_dataframe_analysis_continues ==
    /\ script = "final_working_demo" /\ pc = "multi"
    /\ Plain("demo_multi_dataframe_analysis", "True", "ai_ctor", "ai_ctor")
    /\ UNCHANGED <<script, gen_vars, customer_id, duplicate_indices, previous, config, llm, mi, qi, df, files>>

fw_demo_multi_dataframe_analysis ==
    /\ script = "final_working_demo" /\ pc = "multi"
    /\ Plain("demo_multi_dataframe_analysis", "True", "ai_ctor", "except")
    /\ UNCHANGED <<script, gen_vars, customer_id, duplicate_indices, previous, config, llm, mi, qi, df, files>>

\* main: "Test AI features last": demo_ai_powered_queries()
\* demo_ai_powered_queries: try: llm = ap.OllamaLLM(model_name="phi3:mini")   except: return False
fw_demo_ai_powered_queries_construct ==
    /\ script = "final_working_demo" /\ pc = "ai_ctor"
    /\ \E r \in Outcomes :
        IF r = "ok"
        THEN Log(<<Call("demo_ai_powered_queries"), Ctor(fw_model, r)>>) /\ pc' = "ai_probe" /\ ret' = ret
        ELSE /\ Log(<<Call("demo_ai_powered_queries"), Ctor(fw_model, r), Caught("demo_ai_powered_queries"), Return("demo_ai_powered_queries", "False")>>)
             /\ pc' = "after_ai" /\ ret' = "False"
    /\ UNCHANGED <<script, gen_vars, customer_id, duplicate_indices, previous, config, llm, mi, qi, df, files>>

\* demo_ai_powered_queries: if llm.is_available(): ... else: return False   except: return False
fw_demo_ai_powered_queries_probe ==
    /\ script = "final_working_demo" /\ pc = "ai_probe"
    /\ \E r \in ProbeResults :
        IF r = "True"
        THEN Log(<<Probe(fw_model, r)>>) /\ pc' = "ai_set" /\ ret' = ret
        ELSE /\ Log(<<Probe(fw_model, r)>>
                    \o (IF r = "raise" THEN <<Caught("demo_ai_powered_queries")>> ELSE <<>>)
                    \o <<Return("demo_ai_powered_queries", "False")>>)
             /\ pc' = "after_ai" /\ ret' = "False"
    /\ UNCHANGED <<script, gen_vars, customer_id, duplicate_indices, previous, config, llm, mi, qi, df, files>>

\* demo_ai_powered_queries: ap.set_llm(llm); print("LLM configured successfully!")   except: return False
fw_demo_ai_powered_queries_set ==
    /\ script = "final_working_demo" /\ pc = "ai_set"
    /\ \E r \in Outcomes :
        /\ llm' = set_llm(fw_model, r)
        /\ IF r = "ok"
           THEN Log(<<SetLlm(fw_model, r)>>) /\ pc' = "ai_basic" /\ ret' = ret
           ELSE /\ Log(<<SetLlm(fw_model, r), Caught("demo_ai_powered_queries"), Return("demo_ai_powered_queries", "False")>>)
                /\ pc' = "after_ai" /\ ret' = "False"
    /\ UNCHANGED <<script, gen_vars, customer_id, duplicate_indices, previous, config, mi, qi, df, files>>

\* demo_ai_powered_queries: sales_ap, customer_ap = demo_basic_analysis()  (outside the try blocks
\* of demo_ai_powered_queries: an exception leaves it and reaches main's handler)
fw_demo_ai_powered_queries_basic ==
    /\ script = "final_working_demo" /\ pc = "ai_basic"
    /\ \E r \in Outcomes :
        /\ Log(IF r = "ok"
               THEN <<Call("demo_basic_analysis"), Return("demo_basic_analysis", "adapters")>>
               ELSE <<Call("demo_basic_analysis"), Raise("demo_basic_analysis"), Raise("demo_ai_powered_queries")>>)
        /\ pc' = IF r = "ok" THEN "ai_chat" ELSE "except"
        /\ qi' = IF r = "ok" THEN 1 ELSE qi
    /\ UNCHANGED <<script, gen_vars, customer_id, duplicate_indices, previous, config, llm, ret, mi, df, files>>

\* demo_ai_powered_queries: for i, query in enumerate(queries, 1): try:
\* sales_ap.chat(query)  except: print;  return True
fw_demo_ai_powered_queries_chat ==
    /\ script = "final_working_demo" /\ pc = "ai_chat"
    /\ ChatLoop("demo_ai_powered_queries", "sales_ap.chat", Len(fw_queries), "True", "after_ai")
    /\ UNCHANGED <<script, gen_vars, customer_id, duplicate_indices, previous, config, llm, mi, df, files>>

\* main: the value demo_ai_powered_queries() returned is not looked at:
\* print("All demonstrations completed successfully!"), then the "What's Working"
\* list, whose last line is "AI-powered queries (LLM integration)"
fw_main_finish ==
    /\ script = "final_working_demo" /\ pc = "after_ai"
    /\ Log(<<Out("All demonstrations completed successfully!"),
             Out("AI-powered queries (LLM integration)"), Return("main", "None")>>)
    /\ pc' = "done"
    /\ UNCHANGED <<script, gen_vars, customer_id, duplicate_indices, previous, config, llm, ret, mi, qi, df, files>>

\* main: except Exception as e: print(f"Demo failed: {e}"); traceback.print_exc()
fw_main_except ==
    /\ script = "final_working_demo" /\ pc = "except"
    /\ Log(<<Caught("main"), Out("Demo failed"), Return("main", "None")>>)
    /\ pc' = "done"
    /\ UNCHANGED <<script, gen_vars, customer_id, duplicate_indices, previous, config, llm, ret, mi, qi, df, files>>

final_working_demo ==
    \/ fw_demo_basic_analysis \/ fw_demo_dataframe_methods
    \/ fw_demo_data_quality_and_cleaning \/ fw_demo_visualization_setup
    \/ fw_demo_configuration \/ fw_demo_available_models \/ fw_demo_query_analysis
    \/ fw_demo_manual_analysis \/ fw_demo_multi_dataframe_analysis
    \/ fw_demo_ai_powered_queries_construct \/ fw_demo_ai_powered_queries_probe
    \/ fw_demo_ai_powered_queries_set \/ fw_demo_ai_powered_queries_basic
    \/ fw_demo_ai_powered_queries_chat \/ fw_main_finish \/ fw_main_except

\* ------------------------------------------------------------------ working_demo.py

\* main's try block, in order: eight demos, none of which touches an LLM
wd_demo_basic_analysis ==
    /\ script = "working_demo" /\ pc = "start"
    /\ Plain("demo_basic_analysis", "adapters", "methods", "except")
    /\ UNCHANGED <<script, gen_vars, customer_id, duplicate_indices, previous, config, llm, mi, qi, df, files>>

wd_demo_dataframe_methods ==
    /\ script = "working_demo" /\ pc = "methods"
    /\ Plain("demo_dataframe_methods", "adapters", "quality", "except")
    /\ UNCHANGED <<script, gen_vars, customer_id, duplicate_indices, previous, config, llm, mi, qi, df, files>>

wd_demo_data_quality_and_cleaning ==
    /\ script = "working_demo" /\ pc = "quality"
    /\ Plain("demo_data_quality_and_cleaning", "True", "viz", "except")
    /\ UNCHANGED <<script, gen_vars, customer_id, duplicate_indices, previous, config, llm, mi, qi, df, files>>

wd_demo_visualization_setup ==
    /\ script = "working_demo" /\ pc = "viz"
    /\ PlainConfig("demo_visualization_setup", "True", "configuration", "except",
                   <<[plot_style |-> "ggplot", verbose |-> "True"]>>)
    /\ UNCHANGED <<script, gen_vars, customer_id, duplicate_indices, previous, llm, mi, qi, df, files>>

wd_demo_configuration ==
    /\ script = "working_demo" /\ pc = "configuration"
    /\ PlainConfig("demo_configuration", "True", "models", "except",
                   <<[verbose |-> "True", plot_style |-> "seaborn",
                     output_dir |-> "demo_output", max_execution_time |-> "120",
                     enable_history |-> "True"]>>)
    /\ UNCHANGED <<script, gen_vars, customer_id, duplicate_indices, previous, llm, mi, qi, df, files>>

wd_demo_available_models ==
    /\ script = "working_demo" /\ pc = "models"
    /\ Plain("demo_available_models", "True", "query_analysis", "except")
    /\ UNCHANGED <<script, gen_vars, customer_id, duplicate_indices, previous, config, llm, mi, qi, df, files>>

\* demo_query_analysis: every ap.analyze_query(query) is inside `try: ... except Exception:
\* print(...)`; the function returns True either way
wd_demo_query_analysis ==
    /\ script = "working_demo" /\ pc = "query_analysis"
    /\ \E r \in Outcomes :
        Log(<<Call("demo_query_analysis")>>
            \o (IF r = "raise" THEN <<Caught("demo_query_analysis")>> ELSE <<>>)
            \o <<Return("demo_query_analysis", "True")>>)
    /\ pc' = "manual" /\ ret' = "True"
    /\ UNCHANGED <<script, gen_vars, customer_id, duplicate_indices, previous, config, llm, mi, qi, df, files>>

wd_demo_manual_analysis ==
    /\ script = "working_demo" /\ pc = "manual"
    /\ Plain("demo_manual_analysis", "True", "finish", "except")
    /\ UNCHANGED <<script, gen_vars, customer_id, duplicate_indices, previous, config, llm, mi, qi, df, files>>

\* main: print("All demonstrations completed successfully!") ... end of the try block
wd_main_finish ==
    /\ script = "working_demo" /\ pc = "finish"
    /\ Log(<<Out("All demonstrations completed successfully!"), Return("main", "None")>>)
    /\ pc' = "done"
    /\ UNCHANGED <<script, gen_vars, customer_id, duplicate_indices, previous, config, llm, ret, mi, qi, df, files>>

\* main: except Exception as e: print(f"Demo failed: {e}"); traceback.print_exc()
wd_main_except ==
    /\ script = "working_demo" /\ pc = "except"
    /\ Log(<<Caught("main"), Out("Demo failed"), Return("main", "None")>>)
    /\ pc' = "done"
    /\ UNCHANGED <<script, gen_vars, customer_id, duplicate_indices, previous, config, llm, ret, mi, qi, df, files>>

working_demo ==
    \/ wd_demo_basic_analysis \/ wd_demo_dataframe_methods
    \/ wd_demo_data_quality_and_cleaning \/ wd_demo_visualization_setup
    \/ wd_demo_configuration \/ wd_demo_available_models \/ wd_demo_query_analysis
    \/ wd_demo_manual_analysis \/ wd_main_finish \/ wd_main_except

\* ------------------------------------------------------------------ comprehensive_test.py

ct_model == "mistral"

\* test_ai_powered_queries: the query list
ct_queries ==
    << "What is the average income by region?",
       "Show me a histogram of customer ages",
       "Which membership type has the highest average income?",
       "Create a correlation heatmap of numeric columns",
       "What is the distribution of purchase amounts?" >>

\* main (inside its try block): sample_df = create_comprehensive_sample_data()
\* (numpy/pandas only; df.to_csv writes the file and a failed write raises)
ct_create_comprehensive_sample_data ==
    /\ script = "comprehensive_test" /\ pc = "start"
    /\ \E r \in Outcomes :
        /\ files' = files \cup (IF r = "ok" THEN {"comprehensive_sample.csv"} ELSE {})
        /\ Log(IF r = "ok"
               THEN <<Call("create_comprehensive_sample_data"),
                      Return("create_comprehensive_sample_data", "frame")>>
               ELSE <<Call("create_comprehensive_sample_data"),
                      Raise("create_comprehensive_sample_data")>>)
        /\ pc' = IF r = "ok" THEN "basic" ELSE "except"
    /\ UNCHANGED <<script, gen_vars, customer_id, duplicate_indices, previous, config, llm, ret, mi, qi, df>>

\* df = test_basic_functionality(): try: df = ap.DataFrame(csv); info; describe;
\* return df   except Exception: print("... failed"); return None
ct_test_basic_functionality ==
    /\ script = "comprehensive_test" /\ pc = "basic"
    /\ \E r \in Outcomes :
        /\ Log(IF r = "ok"
               THEN <<Call("test_basic_functionality"), Out("Basic functionality tests passed"),
                      Return("test_basic_functionality", "frame")>>
               ELSE <<Call("test_basic_functionality"), Caught("test_basic_functionality"),
                      Out("Basic functionality test failed"),
                      Return("test_basic_functionality", "None")>>)
        /\ df' = IF r = "ok" THEN "frame" ELSE "None"
        /\ ret' = IF r = "ok" THEN "frame" ELSE "None"
    /\ pc' = "after_basic"
    /\ UNCHANGED <<script, gen_vars, customer_id, duplicate_indices, previous, config, llm, mi, qi, files>>

\* variant of ct_main_if_df that keeps only the five tests taking df under the
\* `if`: the three without a dataframe argument run either way
ct_main_if_df_only_df_tests ==
    /\ script = "comprehensive_test" /\ pc = "after_basic"
    /\ pc' = IF df # "None" THEN "statistical" ELSE "query_analysis"
    /\ UNCHANGED <<script, gen_vars, customer_id, duplicate_indices, previous, config, trace, llm, ret, mi, qi, df, files>>

\* main: if df is not None: <the eight tests>
ct_main_if_df ==
    /\ script = "comprehensive_test" /\ pc = "after_basic"
    /\ pc' = IF df # "None" THEN "statistical" ELSE "finish"
    /\ UNCHANGED <<script, gen_vars, customer_id, duplicate_indices, previous, config, trace, llm, ret, mi, qi, df, files>>

ct_test_advanced_statistical_analysis ==
    /\ script = "comprehensive_test" /\ pc = "statistical"
    /\ Guarded("test_advanced_statistical_analysis", "Advanced statistical analysis", "quality")
    /\ UNCHANGED <<script, gen_vars, customer_id, duplicate_indices, previous, config, llm, mi, qi, df, files>>

ct_test_data_quality_analysis ==
    /\ script = "comprehensive_test" /\ pc = "quality"
    /\ Guarded("test_data_quality_analysis", "Data quality analysis", "performance")
    /\ UNCHANGED <<script, gen_vars, customer_id, duplicate_indices, previous, config, llm, mi, qi, df, files>>

\* variant of ct_test_performance_optimization without its try/except: an
\* exception leaves the test and reaches main's handler
ct_test_performance_optimization_unguarded ==
    /\ script = "comprehensive_test" /\ pc = "performance"
    /\ Plain("test_performance_optimization", "None", "visualizations", "except")
    /\ UNCHANGED <<script, gen_vars, customer_id, duplicate_indices, previous, config, llm, mi, qi, df, files>>

ct_test_performance_optimization ==
    /\ script = "comprehensive_test" /\ pc = "performance"
    /\ Guarded("test_performance_optimization", "Performance optimization", "visualizations")
    /\ UNCHANGED <<script, gen_vars, customer_id, duplicate_indices, previous, config, llm, mi, qi, df, files>>

ct_test_advanced_visualizations ==
    /\ script = "comprehensive_test" /\ pc = "visualizations"
    /\ Guarded("test_advanced_visualizations", "Advanced visualization", "ai_ctor")
    /\ UNCHANGED <<script, gen_vars, customer_id, duplicate_indices, previous, config, llm, mi, qi, df, files>>

\* test_ai_powered_queries: try: try: llm = ap.OllamaLLM(model_name="mistral")
\* except Exception: print("LLM setup failed"); print("Skipping AI query tests")
ct_test_ai_powered_queries_construct ==
    /\ script = "comprehensive_test" /\ pc = "ai_ctor"
    /\ \E r \in Outcomes :
        IF r = "ok"
        THEN /\ Log(<<Call("test_ai_powered_queries"), Ctor(ct_model, r)>>)
             /\ pc' = "ai_probe" /\ ret' = ret
        ELSE /\ Log(<<Call("test_ai_powered_queries"), Ctor(ct_model, r),
                      Caught("test_ai_powered_queries"), Out("Skipping AI query tests"),
                      Return("test_ai_powered_queries", "None")>>)
             /\ pc' = "query_analysis" /\ ret' = "None"
    /\ UNCHANGED <<script, gen_vars, customer_id, duplicate_indices, previous, config, llm, mi, qi, df, files>>

\* test_ai_powered_queries: if llm.is_available(): ...
\* else: print("Ollama not available, skipping AI query tests")
ct_test_ai_powered_queries_probe ==
    /\ script = "comprehensive_test" /\ pc = "ai_probe"
    /\ \E r \in ProbeResults :
        IF r = "True"
        THEN Log(<<Probe(ct_model, r)>>) /\ pc' = "ai_set" /\ ret' = ret
        ELSE /\ Log(<<Probe(ct_model, r)>>
                    \o (IF r = "raise" THEN <<Caught("test_ai_powered_queries")>> ELSE <<>>)
                    \o <<Out("Skipping AI query tests"),
                         Return("test_ai_powered_queries", "None")>>)
             /\ pc' = "query_analysis" /\ ret' = "None"
    /\ UNCHANGED <<script, gen_vars, customer_id, duplicate_indices, previous, config, llm, mi, qi, df, files>>

\* test_ai_powered_queries: ap.set_llm(llm); print("Ollama LLM configured");
\* the chat loop follows inside the same `if`
ct_test_ai_powered_queries_set ==
    /\ script = "comprehensive_test" /\ pc = "ai_set"
    /\ \E r \in Outcomes :
        /\ llm' = set_llm(ct_model, r)
        /\ IF r = "ok"
           THEN Log(<<SetLlm(ct_model, r)>>) /\ pc' = "ai_chat" /\ qi' = 1 /\ ret' = ret
           ELSE /\ Log(<<SetLlm(ct_model, r), Caught("test_ai_powered_queries"),
                         Out("Skipping AI query tests"),
                         Return("test_ai_powered_queries", "None")>>)
                /\ pc' = "query_analysis" /\ qi' = qi /\ ret' = "None"
    /\ UNCHANGED <<script, gen_vars, customer_id, duplicate_indices, previous, config, mi, df, files>>

\* test_ai_powered_queries: for i, query in enumerate(queries, 1): try:
\* df.chat(query)  except Exception: print("Failed")
ct_test_ai_powered_queries_chat ==
    /\ script = "comprehensive_test" /\ pc = "ai_chat"
    /\ ChatLoop("test_ai_powered_queries", "df.chat", Len(ct_queries), "None", "query_analysis")
    /\ UNCHANGED <<script, gen_vars, customer_id, duplicate_indices, previous, config, llm, mi, df, files>>

ct_test_query_analysis_and_validation ==
    /\ script = "comprehensive_test" /\ pc = "query_analysis"
    /\ Guarded("test_query_analysis_and_validation", "Query analysis", "configuration")
    /\ UNCHANGED <<script, gen_vars, customer_id, duplicate_indices, previous, config, llm, mi, qi, df, files>>

\* variant of ct_test_configuration_management whose second set_config call
\* also passes plot_style
ct_test_configuration_management_resets_style ==
    /\ script = "comprehensive_test" /\ pc = "configuration"
    /\ GuardedConfig("test_configuration_management", "Configuration management",
                     "utilities",
                     <<[verbose |-> "True", plot_style |-> "seaborn",
                        max_execution_time |-> "60"],
                       [verbose |-> "False", temperature |-> "0.2",
                        plot_style |-> "default"]>>)
    /\ UNCHANGED <<script, gen_vars, customer_id, duplicate_indices, previous, llm, mi, qi, df, files>>

\* test_configuration_management: get_config();
\* set_config(verbose=True, plot_style="seaborn", max_execution_time=60); get_config();
\* set_config(verbose=False, temperature=0.2); get_config(), all inside the try block
ct_test_configuration_management ==
    /\ script = "comprehensive_test" /\ pc = "configuration"
    /\ GuardedConfig("test_configuration_management", "Configuration management",
                     "utilities",
                     <<[verbose |-> "True", plot_style |-> "seaborn",
                        max_execution_time |-> "60"],
                       [verbose |-> "False", temperature |-> "0.2"]>>)
    /\ UNCHANGED <<script, gen_vars, customer_id, duplicate_indices, previous, llm, mi, qi, df, files>>

ct_test_utilities_and_helpers ==
    /\ script = "comprehensive_test" /\ pc = "utilities"
    /\ Guarded("test_utilities_and_helpers", "Utilities", "finish")
    /\ UNCHANGED <<script, gen_vars, customer_id, duplicate_indices, previous, config, llm, mi, qi, df, files>>

\* main: print("All tests completed successfully!") follows the `if`, not inside
\* it; the performance summary after it is wrapped in `try: ... except: pass`
ct_main_finish ==
    /\ script = "comprehensive_test" /\ pc = "finish"
    /\ \E r \in Outcomes :
        Log(<<Out("All tests completed successfully!")>>
            \o (IF r = "raise" THEN <<Caught("main")>> ELSE <<>>)
            \o <<Return("main", "None")>>)
    /\ pc' = "done"
    /\ UNCHANGED <<script, gen_vars, customer_id, duplicate_indices, previous, config, llm, ret, mi, qi, df, files>>

\* main: except Exception as e: print(f"Test suite failed: {e}"); traceback.print_exc()
ct_main_except ==
    /\ script = "comprehensive_test" /\ pc = "except"
    /\ Log(<<Caught("main"), Out("Test suite failed"), Return("main", "None")>>)
    /\ pc' = "done"
    /\ UNCHANGED <<script, gen_vars, customer_id, duplicate_indices, previous, config, llm, ret, mi, qi, df, files>>

comprehensive_test ==
    \/ ct_create_comprehensive_sample_data \/ ct_test_basic_functionality \/ ct_main_if_df
    \/ ct_test_advanced_statistical_analysis \/ ct_test_data_quality_analysis
    \/ ct_test_performance_optimization \/ ct_test_advanced_visualizations
    \/ ct_test_ai_powered_queries_construct \/ ct_test_ai_powered_queries_probe
    \/ ct_test_ai_powered_queries_set \/ ct_test_ai_powered_queries_chat
    \/ ct_test_query_analysis_and_validation \/ ct_test_configuration_management
    \/ ct_test_utilities_and_helpers \/ ct_main_finish \/ ct_main_except

\* ------------------------------------------------------------------ test_basic_functionality.py

\* the events of loading the CSV files `paths` in order with ap.DataFrame(path):
\* the first path that does not exist ends the sequence
LoadsOf(paths) ==
    LET missing == {i \in 1..Len(paths) : paths[i] \notin files}
        last    == IF missing = {} THEN Len(paths)
                   ELSE CHOOSE i \in missing : \A j \in missing : i <= j
    IN  [i \in 1..last |-> Load(paths[i], IF paths[i] \in files THEN "found" ELSE "missing")]

\* Plain for a function that first loads the CSV files `paths`: a file that does
\* not exist cannot be loaded, so the function raises
PlainLoad(f, v, next, handler, paths) ==
    \E r \in Outcomes :
        /\ (\E i \in 1..Len(paths) : paths[i] \notin files) => r = "raise"
        /\ Log(<<Call(f)>> \o LoadsOf(paths)
               \o <<IF r = "ok" THEN Return(f, v) ELSE Raise(f)>>)
        /\ pc' = IF r = "ok" THEN next ELSE handler
        /\ ret' = IF r = "ok" THEN v ELSE ret

\* main's try block, in order
\* test_basic_dataframe_operations: ap.DataFrame("demo_sales.csv");
\* ap.DataFrame("demo_customers.csv")
tb_test_basic_dataframe_operations ==
    /\ script = "test_basic_functionality" /\ pc = "start"
    /\ PlainLoad("test_basic_dataframe_operations", "adapters", "analysis", "except",
                 <<"demo_sales.csv", "demo_customers.csv">>)
    /\ UNCHANGED <<script, gen_vars, customer_id, duplicate_indices, previous, config, llm, mi, qi, df, files>>

\* variant of tb_test_data_analysis whose exception is swallowed: the next test
\* runs all the same
tb_test_data_analysis_swallowed ==
    /\ script = "test_basic_functionality" /\ pc = "analysis"
    /\ Plain("test_data_analysis", "adapter", "manipulation", "manipulation")
    /\ UNCHANGED <<script, gen_vars, customer_id, duplicate_indices, previous, config, llm, mi, qi, df, files>>

\* test_data_analysis: sales_df = ap.DataFrame("demo_sales.csv") comes first
tb_test_data_analysis ==
    /\ script = "test_basic_functionality" /\ pc = "analysis"
    /\ PlainLoad("test_data_analysis", "adapter", "manipulation", "except",
                 <<"demo_sales.csv">>)
    /\ UNCHANGED <<script, gen_vars, customer_id, duplicate_indices, previous, config, llm, mi, qi, df, files>>

\* test_data_manipulation: sales_df = ap.DataFrame("demo_sales.csv") comes first
tb_test_data_manipulation ==
    /\ script = "test_basic_functionality" /\ pc = "manipulation"
    /\ PlainLoad("test_data_manipulation", "adapter", "utility", "except",
                 <<"demo_sales.csv">>)
    /\ UNCHANGED <<script, gen_vars, customer_id, duplicate_indices, previous, config, llm, mi, qi, df, files>>

\* test_utility_functions: ap.DataFrame({...}) and clean_columns() are unguarded;
\* only ap.DataFrame("demo_sales.csv") is inside `try: ... except Exception: print`
tb_test_utility_functions ==
    /\ script = "test_basic_functionality" /\ pc = "utility"
    /\ \E r \in Outcomes, c \in Outcomes :
        /\ "demo_sales.csv" \notin files => c = "raise"
        /\ Log(IF r = "raise"
               THEN <<Call("test_utility_functions"), Raise("test_utility_functions")>>
               ELSE <<Call("test_utility_functions")>> \o LoadsOf(<<"demo_sales.csv">>)
                    \o (IF c = "raise" THEN <<Caught("test_utility_functions")>> ELSE <<>>)
                    \o <<Return("test_utility_functions", "adapter")>>)
        /\ pc' = IF r = "ok" THEN "visualization" ELSE "except"
        /\ ret' = IF r = "ok" THEN "adapter" ELSE ret
    /\ UNCHANGED <<script, gen_vars, customer_id, duplicate_indices, previous, config, llm, mi, qi, df, files>>

\* variant of tb_test_visualization_setup that configures an LLM before listing
\* the available models
tb_test_visualization_setup_with_llm ==
    /\ script = "test_basic_functionality" /\ pc = "visualization"
    /\ \E r \in Outcomes :
        /\ Log(<<Call("test_visualization_setup"), Ctor("mistral", "ok"),
                 Probe("mistral", "True"), SetLlm("mistral", r)>>
               \o (IF r = "ok" THEN <<Return("test_visualization_setup", "True")>>
                   ELSE <<Raise("test_visualization_setup")>>))
        /\ llm' = set_llm("mistral", r)
        /\ pc' = IF r = "ok" THEN "finish" ELSE "except"
        /\ ret' = IF r = "ok" THEN "True" ELSE ret
    /\ UNCHANGED <<script, gen_vars, customer_id, duplicate_indices, previous, config, mi, qi, df, files>>

tb_test_visualization_setup ==
    /\ script = "test_basic_functionality" /\ pc = "visualization"
    /\ PlainConfig("test_visualization_setup", "True", "finish", "except",
                   <<[plot_style |-> "ggplot", verbose |-> "True"]>>)
    /\ UNCHANGED <<script, gen_vars, customer_id, duplicate_indices, previous, llm, mi, qi, df, files>>

\* main: print("All basic functionality tests completed successfully!"), then the
\* summary calls sales_df.shape(), customers_df.shape(), cleaned_df.shape(),
\* still inside the try block
tb_main_finish ==
    /\ script = "test_basic_functionality" /\ pc = "finish"
    /\ \E r \in Outcomes :
        /\ Log(<<Out("All basic functionality tests completed successfully!")>>
               \o (IF r = "ok" THEN <<Return("main", "None")>> ELSE <<Raise("summary")>>))
        /\ pc' = IF r = "ok" THEN "done" ELSE "except"
    /\ UNCHANGED <<script, gen_vars, customer_id, duplicate_indices, previous, config, llm, ret, mi, qi, df, files>>

\* main: except Exception as e: print(f"Test failed: {e}"); traceback.print_exc()
tb_main_except ==
    /\ script = "test_basic_functionality" /\ pc = "except"
    /\ Log(<<Caught("main"), Out("Test failed"), Return("main", "None")>>)
    /\ pc' = "done"
    /\ UNCHANGED <<script, gen_vars, customer_id, duplicate_indices, previous, config, llm, ret, mi, qi, df, files>>

test_basic_functionality ==
    \/ tb_test_basic_dataframe_operations \/ tb_test_data_analysis
    \/ tb_test_data_manipulation \/ tb_test_utility_functions
    \/ tb_test_visualization_setup \/ tb_main_finish \/ tb_main_except

\* ------------------------------------------------------------------ specification

\* how a demo.py run that has ended ended, by its last status line
demo_ending ==
    IF pc = "crashed" THEN "crashed"
    ELSE IF Printed("LLM not available") THEN "LLM not available"
    ELSE IF Printed("Demo failed") THEN "Demo failed"
    ELSE "Demo completed"

\* test_basic_functionality.py is started in the directory where a demo.py run has
\* ended (`if __name__ == "__main__": main()`): a new process, so only the files
\* the earlier run wrote are still there
later_test_basic_functionality ==
    /\ script = "demo" /\ pc \in {"done", "crashed"}
    /\ script' = "test_basic_functionality" /\ pc' = "start"
    /\ previous' = demo_ending
    /\ trace' = <<>> /\ llm' = "none" /\ ret' = "None"
    /\ mi' = 0 /\ qi' = 0 /\ df' = "unset"
    /\ config' = default_config
    /\ UNCHANGED <<files, customer_id, duplicate_indices, gen_vars>>

\* Init: one script is started; test_basic_functionality.py may find the demo
\* files of an earlier session in its directory or not
Init ==
    /\ script \in Scripts
    /\ pc = "start"
    /\ trace = <<>>
    /\ llm = "none"
    /\ ret = "None"
    /\ mi = 0
    /\ qi = 0
    /\ df = "unset"
    /\ files \in IF script = "test_basic_functionality"
                 THEN SUBSET {demo_files[i] : i \in 1..Len(demo_files)} ELSE {{}}
    /\ config = default_config
    /\ previous = "none"
    /\ customer_id = <<>>
    /\ duplicate_indices = <<>>
    /\ np_random_state = 0
    /\ random_state = 0
    /\ now = 0
    /\ tables = <<>>

Next ==
    \/ simple_config
    \/ demo
    \/ simple_demo
    \/ complete_workflow_demo
    \/ final_working_demo
    \/ working_demo
    \/ comprehensive_test
    \/ test_basic_functionality
    \/ later_test_basic_functionality

Spec == Init /\ [][Next]_vars

\* ------------------------------------------------------------------ properties

Idx == 1..Len(trace)
LlmOps == {"ctor", "probe", "set_llm"}

\* C1: set_llm(llm) is only ever called directly after is_available() of that
\* same llm returned True (and after its constructor returned); a model whose
\* constructor raised, or whose probe returned False or raised, is not set.
C1_SetOnlyAfterProbeTrue ==
    /\ \A i \in Idx :
        trace[i].op = "set_llm" =>
            /\ i > 2
            /\ trace[i - 1] = Probe(trace[i].arg, "True")
            /\ trace[i - 2] = Ctor(trace[i].arg, "ok")
    /\ \A i \in Idx :
        (\/ trace[i].op = "probe" /\ trace[i].res # "True"
         \/ trace[i].op = "ctor" /\ trace[i].res = "raise")
        => \A j \in Idx : j > i => ~(trace[j].op = "set_llm" /\ trace[j].arg = trace[i].arg)

\* a model was set after an earlier model's probe had failed
C1_Witness ==
    \E i, j \in Idx :
        /\ j < i
        /\ trace[j].op = "probe" /\ trace[j].res # "True"
        /\ trace[i].op = "set_llm"

\* C2: a chat query is issued only after an availability probe returned True and
\* set_llm for that model returned normally, earlier in the same run; a run in
\* which no probe returned True issues no chat query.
C2_ChatOnlyAfterSetup ==
    /\ \A i \in Idx :
        trace[i].op = "chat" =>
            \E j, k \in Idx :
                /\ j < k /\ k < i
                /\ trace[j].op = "probe" /\ trace[j].res = "True"
                /\ trace[k] = SetLlm(trace[j].arg, "ok")
    /\ (\A i \in Idx : trace[i].op = "probe" => trace[i].res # "True") => Count("chat") = 0
    /\ Count("chat") > 0 => llm # "none"

\* a chat query was issued
C2_Witness == Count("chat") > 0 /\ pc = "done"

ChatScripts == {"demo", "simple_demo", "complete_workflow_demo", "final_working_demo",
                "comprehensive_test"}

\* the functions of the scripts that analyse or demonstrate without an LLM
\* (data generation and LLM setup are not among them)
ManualFunctions ==
    {"show_manual_analysis", "demo_basic_analysis", "demo_dataframe_methods",
     "demo_data_quality_and_cleaning", "demo_visualization_setup", "demo_configuration",
     "demo_available_models", "demo_query_analysis", "demo_manual_analysis",
     "demo_multi_dataframe_analysis", "demo_advanced_features", "demo_utilities",
     "test_basic_functionality", "test_advanced_statistical_analysis",
     "test_data_quality_analysis", "test_performance_optimization",
     "test_advanced_visualizations", "test_query_analysis_and_validation",
     "test_configuration_management", "test_utilities_and_helpers"}

\* the model backend turned out unavailable: a probe returned False, or a step
\* of the LLM setup raised
LlmUnavailable ==
    \E i \in Idx :
        \/ trace[i].op = "probe" /\ trace[i].res # "True"
        \/ trace[i].op \in {"ctor", "set_llm"} /\ trace[i].res = "raise"

\* C3: in every script that can issue chat queries, a finished run in which the
\* model backend was unavailable has executed at least one non-AI analysis or
\* demo function (the manual fallback).
C3_FallsBackToManual ==
    (script \in ChatScripts /\ pc = "done" /\ LlmUnavailable)
    => \E i \in Idx : trace[i].op = "call" /\ trace[i].arg \in ManualFunctions

\* C4: no exception raised by an askpandas call leaves a script's entry point:
\* the only exception that may escape is one raised outside the library (the
\* CSV write of demo.create_sample_data).
C4_LibraryExceptionsCaught ==
    pc = "crashed" => trace[Len(trace)] = Raise("create_sample_data")

IsLight(m) == \E k \in 1..Len(light_models) : light_models[k] = m

\* the constructor calls of setup_lightweight_ollama, in the order made
OllamaCtors == SelectSeq(trace, LAMBDA e : e.op = "ctor" /\ IsLight(e.arg))

\* setup_lightweight_ollama constructs the models in list order
C5_FixedOrder ==
    /\ Len(OllamaCtors) <= Len(light_models)
    /\ \A k \in 1..Len(OllamaCtors) : OllamaCtors[k].arg = light_models[k]

\* a True probe is directly followed by set_llm for that model
C5_SetFollowsProbe ==
    \A i \in Idx :
        (trace[i].op = "probe" /\ trace[i].res = "True" /\ IsLight(trace[i].arg)
         /\ i < Len(trace))
        => trace[i + 1].op = "set_llm" /\ trace[i + 1].arg = trace[i].arg

\* C5 as stated: once a model's probe returned True, set_llm is called for it and
\* no later model of the list is constructed, probed or set.
C5_FirstAvailableEndsSearch ==
    script = "simple_config" =>
        /\ C5_FixedOrder
        /\ C5_SetFollowsProbe
        /\ \A i \in Idx :
            (trace[i].op = "probe" /\ trace[i].res = "True" /\ IsLight(trace[i].arg))
            => \A j \in Idx :
                j > i + 1 => ~(trace[j].op \in LlmOps /\ IsLight(trace[j].arg))

\* C5 amended: the models are tried in list order and set_llm is called for each
\* one whose probe returns True; once set_llm has RETURNED NORMALLY no later model
\* is constructed, probed or set, and when set_llm raises the search goes on with
\* the next model of the list.
C5_FirstConfiguredEndsSearch ==
    script = "simple_config" =>
        /\ C5_FixedOrder
        /\ C5_SetFollowsProbe
        /\ \A i \in Idx :
            (trace[i].op = "set_llm" /\ trace[i].res = "ok" /\ IsLight(trace[i].arg))
            => \A j \in Idx : j > i => ~(trace[j].op \in LlmOps /\ IsLight(trace[j].arg))
        /\ \A i \in Idx : \A k \in 1..(Len(light_models) - 1) :
            (trace[i] = SetLlm(light_models[k], "raise") /\ i + 2 <= Len(trace))
            => trace[i + 2].op = "ctor" /\ trace[i + 2].arg = light_models[k + 1]

\* set_llm raised for the first model and the third model was configured
C5_Witness ==
    /\ script = "simple_config" /\ pc = "done"
    /\ Has(SetLlm(light_models[1], "raise"))
    /\ Has(Probe(light_models[2], "False"))
    /\ Has(SetLlm(light_models[3], "ok"))

\* C6: auto_setup calls setup_huggingface_lightweight if and only if
\* setup_lightweight_ollama returned False, which it does only after all four
\* models failed; nothing touches the Hugging Face model once an Ollama model
\* has been configured.
C6_HuggingFaceOnlyAsBackup ==
    script = "simple_config" =>
        /\ Has(Call("setup_huggingface_lightweight"))
            => Has(Return("setup_lightweight_ollama", "False"))
        /\ (Has(Return("setup_lightweight_ollama", "False")) /\ pc # "auto_after_ollama")
            => Has(Call("setup_huggingface_lightweight"))
        /\ Has(Return("setup_lightweight_ollama", "False"))
            => /\ Len(OllamaCtors) = Len(light_models)
               /\ \A i \in Idx : ~(trace[i].op = "set_llm" /\ trace[i].res = "ok"
                                   /\ IsLight(trace[i].arg))
        /\ \A i \in Idx :
            (trace[i].op = "set_llm" /\ trace[i].res = "ok" /\ IsLight(trace[i].arg))
            => \A j \in Idx :
                j > i => /\ trace[j].arg # hf_model
                         /\ trace[j] # Call("setup_huggingface_lightweight")

\* every Ollama model failed and the Hugging Face model was configured
C6_Witness ==
    /\ script = "simple_config" /\ pc = "done"
    /\ Has(Return("setup_lightweight_ollama", "False"))
    /\ Has(SetLlm(hf_model, "ok"))

\* C7: a run of test_basic_functionality.py constructs no LLM, probes none, sets
\* none and issues no chat query; the global LLM stays as the library left it.
C7_NoLlmInBasicTest ==
    script = "test_basic_functionality" =>
        /\ \A i \in Idx : trace[i].op \notin (LlmOps \cup {"chat"})
        /\ llm = "none"

\* all five basic tests ran to the end
C7_Witness ==
    /\ script = "test_basic_functionality" /\ pc = "done"
    /\ Has(Call("test_visualization_setup"))
    /\ Printed("All basic functionality tests completed successfully!")

tb_tests == <<"test_basic_dataframe_operations", "test_data_analysis",
              "test_data_manipulation", "test_utility_functions",
              "test_visualization_setup">>

Calls == SelectSeq(trace, LAMBDA e : e.op = "call")
Returned(f) == \E i \in Idx : trace[i].op = "return" /\ trace[i].arg = f

\* C8: test_basic_functionality.main runs the five tests in their fixed order;
\* the success line is printed iff all five returned without raising; the first
\* test that raises ends the sequence and "Test failed" is printed, not the
\* success line.
C8_BasicTestsInOrder ==
    script = "test_basic_functionality" =>
        /\ Len(Calls) <= Len(tb_tests)
        /\ \A k \in 1..Len(Calls) : Calls[k].arg = tb_tests[k]
        /\ Printed("All basic functionality tests completed successfully!")
            => \A k \in 1..Len(tb_tests) : Returned(tb_tests[k])
        /\ (pc = "done" /\ \A k \in 1..Len(tb_tests) : Returned(tb_tests[k]))
            => Printed("All basic functionality tests completed successfully!")
        /\ \A k \in 1..Len(tb_tests) :
            Has(Raise(tb_tests[k])) =>
                /\ Len(Calls) = k
                /\ ~Printed("All basic functionality tests completed successfully!")
                /\ pc = "done" => Printed("Test failed")

\* the third test raised: the run ended with "Test failed"
C8_Witness ==
    /\ script = "test_basic_functionality" /\ pc = "done"
    /\ Has(Raise("test_data_manipulation"))
    /\ Printed("Test failed")

ct_tests == <<"test_basic_functionality", "test_advanced_statistical_analysis",
              "test_data_quality_analysis", "test_performance_optimization",
              "test_advanced_visualizations", "test_ai_powered_queries",
              "test_query_analysis_and_validation", "test_configuration_management",
              "test_utilities_and_helpers">>

ct_failure_messages ==
    {"Basic functionality test failed", "Advanced statistical analysis failed",
     "Data quality analysis failed", "Performance optimization failed",
     "Advanced visualization failed", "Query analysis failed",
     "Configuration management failed", "Utilities failed"}

\* C9: comprehensive_test.main prints "All tests completed successfully!" only
\* in runs in which all nine test functions were executed and none of them
\* reported a failure.
C9_SuccessMeansAllPassed ==
    (script = "comprehensive_test" /\ Printed("All tests completed successfully!"))
    => /\ \A k \in 1..Len(ct_tests) : Has(Call(ct_tests[k]))
       /\ \A i \in Idx : ~(trace[i].op = "print" /\ trace[i].arg \in ct_failure_messages)

\* C10: complete_workflow_demo and final_working_demo print "All demonstrations
\* completed successfully!" (and final_working_demo its "AI-powered queries"
\* line) only in runs in which demo_ai_powered_queries returned True.
C10_SuccessMeansAiDemoRan ==
    (/\ script \in {"complete_workflow_demo", "final_working_demo"}
     /\ \/ Printed("All demonstrations completed successfully!")
        \/ Printed("AI-powered queries (LLM integration)"))
    => Has(Return("demo_ai_powered_queries", "True"))

\* ------------------------------------------------------------------
\* create_comprehensive_sample_data (comprehensive_test.py), the customer_id column

\* number of records (1000 in the script)
n_records == 100

\* the share of records the duplicate loop visits, in percent (0.02 in the script)
duplicate_percent == 2

\* list[i] of a Python list, i counted from 0, a negative i counted from the end
GetItem(list, i) == IF i < 0 THEN list[Len(list) + i + 1] ELSE list[i + 1]

\* list[i] = v of a Python list
SetItem(list, i, v) ==
    [list EXCEPT ![IF i < 0 THEN Len(list) + i + 1 ELSE i + 1] = v]

\* np.random.choice(n, size=size, replace=False): size distinct values of 0..n-1
\* in some order
choice(n, size) ==
    {s \in [1..size -> 0..(n - 1)] : \A i, j \in 1..size : i # j => s[i] # s[j]}

\* data = {'customer_id': list(range(1, n_records + 1)), ...}
ct_data_customer_id ==
    /\ script = "comprehensive_test" /\ pc = "data_start"
    /\ customer_id' = [i \in 1..n_records |-> i]
    /\ pc' = "data_choice"
    /\ UNCHANGED <<script, gen_vars, trace, llm, ret, mi, qi, df, files, config, previous,
                   duplicate_indices>>

\* duplicate_indices = np.random.choice(n_records, size=int(n_records * 0.02), replace=False)
ct_data_duplicate_indices ==
    /\ script = "comprehensive_test" /\ pc = "data_choice"
    /\ duplicate_indices' \in choice(n_records, (n_records * duplicate_percent) \div 100)
    /\ pc' = "data_loop"
    /\ UNCHANGED <<script, gen_vars, trace, llm, ret, mi, qi, df, files, config, previous,
                   customer_id>>

\* variant of ct_data_duplicate_loop that copies each visited id onto itself
ct_data_duplicate_loop_self ==
    /\ script = "comprehensive_test" /\ pc = "data_loop"
    /\ duplicate_indices # <<>>
    /\ LET idx == Head(duplicate_indices)
       IN  customer_id' = SetItem(customer_id, idx, GetItem(customer_id, idx))
    /\ duplicate_indices' = Tail(duplicate_indices)
    /\ UNCHANGED <<script, gen_vars, pc, trace, llm, ret, mi, qi, df, files, config, previous>>

\* for idx in duplicate_indices: data['customer_id'][idx] = data['customer_id'][idx - 1]
ct_data_duplicate_loop ==
    /\ script = "comprehensive_test" /\ pc = "data_loop"
    /\ duplicate_indices # <<>>
    /\ LET idx == Head(duplicate_indices)
       IN  customer_id' = SetItem(customer_id, idx, GetItem(customer_id, idx - 1))
    /\ duplicate_indices' = Tail(duplicate_indices)
    /\ UNCHANGED <<script, gen_vars, pc, trace, llm, ret, mi, qi, df, files, config, previous>>

\* df = pd.DataFrame(data), after the loop
ct_data_frame ==
    /\ script = "comprehensive_test" /\ pc = "data_loop"
    /\ duplicate_indices = <<>>
    /\ pc' = "data_done"
    /\ UNCHANGED <<script, gen_vars, trace, llm, ret, mi, qi, df, files, config, previous,
                   customer_id, duplicate_indices>>

\* create_comprehensive_sample_data on its own, its random draw as the input
DataInit ==
    /\ script = "comprehensive_test"
    /\ pc = "data_start"
    /\ trace = <<>>
    /\ llm = "none"
    /\ ret = "None"
    /\ mi = 0
    /\ qi = 0
    /\ df = "unset"
    /\ files = {}
    /\ config = default_config
    /\ previous = "none"
    /\ customer_id = <<>>
    /\ duplicate_indices = <<>>
    /\ np_random_state = 0
    /\ random_state = 0
    /\ now = 0
    /\ tables = <<>>

DataNext ==
    \/ ct_data_customer_id
    \/ ct_data_duplicate_indices
    \/ ct_data_duplicate_loop
    \/ ct_data_frame

DataSpec == DataInit /\ [][DataNext]_vars

\* ------------------------------------------------------------------ C11

\* the value the last set_config call that passed key k stored, the default if no
\* call passed k
LastSet(k) ==
    LET is == {i \in 1..Len(trace) : trace[i].op = "set_config" /\ trace[i].arg = k}
    IN  IF is = {} THEN default_config[k]
        ELSE trace[CHOOSE i \in is : \A j \in is : j <= i].res

C12_ManualFirstThenOptionalQuery ==
    script = "simple_demo" =>
        /\ pc # "start" => trace[1] = Call("show_manual_analysis")
        /\ \A i \in 1..Len(trace) :
               trace[i].op \in LlmOps \cup {"chat"}
                   => \E j \in 1..(i - 1) : trace[j] = Return("show_manual_analysis", "None")
        /\ Has(Call("demo_simple_queries")) => Has(Return("setup_simple_llm", "True"))
        /\ (pc \in {"done", "crashed"} /\ Has(Return("setup_simple_llm", "True")))
               => Has(Call("demo_simple_queries"))
        /\ Count("chat") <= 1
        /\ \A i \in 1..Len(trace) :
               trace[i].op = "chat" => trace[i].arg = "ap.chat" /\ trace[i].n = 1

C12_Witness ==
    /\ script = "simple_demo" /\ pc = "done"
    /\ Has(Return("setup_simple_llm", "True"))
    /\ Count("chat") = 1

\* ------------------------------------------------------------------ C13

\* every occurrence of event b comes after an occurrence of event a
Precedes(a, b) == \A j \in Idx : trace[j] = b => \E i \in 1..(j - 1) : trace[i] = a

CallCount(f) == Cardinality({i \in Idx : trace[i] = Call(f)})

fw_non_ai_demos ==
    <<"demo_basic_analysis", "demo_dataframe_methods", "demo_data_quality_and_cleaning",
      "demo_visualization_setup", "demo_configuration", "demo_available_models",
      "demo_query_analysis", "demo_manual_analysis", "demo_multi_dataframe_analysis">>

\* event i belongs to the AI demo: its call, an LLM constructor, probe or set_llm,
\* or a chat query
IsAiEvent(i) ==
    \/ trace[i].op \in LlmOps \cup {"chat"}
    \/ trace[i] = Call("demo_ai_powered_queries")

\* C14: in final_working_demo.py, demo_ai_powered_queries and every LLM probe,
\* set_llm and chat call come only after each of the nine non-AI demos of main()
\* has returned; a run in which one of the nine raises in main's sequence contains
\* no LLM constructor, probe, set_llm or chat call at all.
C14_AiFeaturesLast ==
    script = "final_working_demo" =>
        /\ \A i \in Idx :
               IsAiEvent(i) =>
                   \A k \in 1..Len(fw_non_ai_demos) :
                       \E j \in 1..(i - 1) :
                           trace[j].op = "return" /\ trace[j].arg = fw_non_ai_demos[k]
        /\ \A i \in Idx :
               (/\ trace[i].op = "raise"
                /\ \E k \in 1..Len(fw_non_ai_demos) : trace[i].arg = fw_non_ai_demos[k]
                /\ \A j \in 1..i : trace[j] # Call("demo_ai_powered_queries"))
                   => \A j \in Idx : ~IsAiEvent(j)

C14_Witness ==
    /\ script = "final_working_demo" /\ pc = "done"
    /\ Count("chat") = Len(fw_queries)
    /\ Has(Caught("demo_query_analysis"))

\* ------------------------------------------------------------------ C15

\* C15: demo.py has written demo_sales.csv and demo_customers.csv before it
\* constructs or probes the LLM, so both exist when main() returns, whatever the
\* LLM did; test_basic_functionality.py loads these two files and no other, and a
\* run of it that follows a demo.py run whose main() returned (in particular one
\* that ended with "LLM not available") finds every file it loads.
C15_DemoFilesOutliveLlmFailure ==
    LET both == {demo_files[i] : i \in 1..Len(demo_files)}
    IN  /\ (script = "demo" /\ (pc = "done" \/ \E i \in Idx : trace[i].op \in LlmOps))
               => both \subseteq files
        /\ script = "test_basic_functionality"
               => /\ \A i \in Idx : trace[i].op = "load" => trace[i].arg \in both
                  /\ Has(Return("test_basic_dataframe_operations", "adapters"))
                         => \A f \in both : Has(Load(f, "found"))
                  /\ previous \in {"LLM not available", "Demo failed", "Demo completed"}
                         => /\ both \subseteq files
                            /\ \A i \in Idx : trace[i].op = "load" => trace[i].res = "found"

C15_Witness ==
    /\ script = "test_basic_functionality" /\ pc = "done"
    /\ previous = "LLM not available"
    /\ Has(Load("demo_sales.csv", "found")) /\ Has(Load("demo_customers.csv", "found"))
    /\ Printed("All basic functionality tests completed successfully!")

\* ------------------------------------------------------------------ C16

\* C16: after the duplicate-injection loop of create_comprehensive_sample_data the
\* customer_id column still has n_records entries, each a value of 1..n_records,
\* and holds fewer than n_records distinct ids (two records share one), whichever
\* indices were drawn, index 0 with its predecessor -1 included.
C16_DuplicatesInjected ==
    pc = "data_done" =>
        /\ Len(customer_id) = n_records
        /\ \A i \in 1..n_records : customer_id[i] \in 1..n_records
        /\ Cardinality({customer_id[i] : i \in 1..n_records}) < n_records

\* index 0 was drawn and took the id of the last record
C16_Witness ==
    /\ pc = "data_done"
    /\ customer_id[1] = n_records
    /\ customer_id[n_records] = n_records

\* ------------------------------------------------------------------ C17

\* the LLM setup functions of demo.py, simple_demo.py and simple_config.py
setup_functions ==
    {"setup_llm", "setup_simple_llm", "setup_lightweight_ollama",
     "setup_huggingface_lightweight", "auto_setup"}

\* the call event that return event j answers
CallOf(j) ==
    CHOOSE i \in 1..(j - 1) :
        /\ trace[i] = Call(trace[j].arg)
        /\ \A k \in (i + 1)..(j - 1) : trace[k] # Call(trace[j].arg)

\* no setup function lets an exception out, each one that was called in a finished
\* run returned, and it returned True exactly if a set_llm call returned normally
\* between its call and its return
C17_ReturnsTrueIffSet ==
    /\ \A j \in Idx : trace[j].arg \in setup_functions => trace[j].op # "raise"
    /\ pc \in {"done", "crashed"}
           => \A f \in setup_functions : Has(Call(f)) => Returned(f)
    /\ \A j \in Idx :
           (trace[j].op = "return" /\ trace[j].arg \in setup_functions)
               => /\ \E i \in 1..(j - 1) : trace[i] = Call(trace[j].arg)
                  /\ trace[j].res \in {"True", "False"}
                  /\ trace[j].res = "True"
                         <=> \E k \in CallOf(j)..j :
                                 trace[k].op = "set_llm" /\ trace[k].res = "ok"

\* within a run, a step changes the configured LLM only if it makes a set_llm call
C17_LlmChangesOnlyBySetLlm ==
    (script' = script /\ llm' # llm)
        => \E i \in (Len(trace) + 1)..Len(trace') : trace'[i].op = "set_llm"

\* C17: every LLM setup function (setup_llm, setup_simple_llm,
\* setup_lightweight_ollama, setup_huggingface_lightweight, auto_setup) catches
\* every library exception and returns True if and only if a set_llm call returned
\* normally during that call; the configured LLM changes only in a step that calls
\* set_llm, so a setup call that returns False without calling set_llm leaves it
\* unchanged.
C17_SetupFunctionsContained ==
    []C17_ReturnsTrueIffSet /\ [][C17_LlmChangesOnlyBySetLlm]_vars

C17_Witness ==
    /\ script = "simple_config"
    /\ Has(SetLlm(light_models[1], "raise"))
    /\ Has(Return("setup_lightweight_ollama", "False"))
    /\ Has(Return("auto_setup", "True"))
    /\ llm = hf_model

\* ------------------------------------------------------------------ C18

\* the position of a lightweight model in light_models
ModelIndex(m) == CHOOSE k \in 1..Len(light_models) : light_models[k] = m

\* event e is a failed attempt: a constructor or set_llm that raised, or a probe
\* that returned False or raised
IsFailure(e) ==
    \/ e.op = "probe" /\ e.res # "True"
    \/ e.op \in {"ctor", "set_llm"} /\ e.res = "raise"

\* the first LLM constructor, probe or set_llm event after event i (0: none yet)
NextLlmEvent(i) ==
    LET later == {j \in (i + 1)..Len(trace) : trace[j].op \in LlmOps}
    IN  IF later = {} THEN 0 ELSE CHOOSE j \in later : \A k \in later : j <= k

\* C18: in setup_lightweight_ollama a failed attempt on model k (constructor,
\* is_available or set_llm raising, or is_available returning False) is followed
\* by the constructor of model k+1; the function returns False only after all
\* four models have been tried; and if no set_llm call raises, set_llm is called
\* at most once.
C18_FailureMovesToNextModel ==
    script = "simple_config" =>
        /\ \A i \in Idx :
               (IsFailure(trace[i]) /\ IsLight(trace[i].arg)
                /\ ModelIndex(trace[i].arg) < Len(light_models))
                   => LET k == ModelIndex(trace[i].arg)
                          n == NextLlmEvent(i)
                      IN  IF n = 0
                          THEN pc = "ollama_loop" /\ mi = k + 1
                          ELSE trace[n].op = "ctor" /\ trace[n].arg = light_models[k + 1]
        /\ Has(Return("setup_lightweight_ollama", "False"))
               => /\ Len(OllamaCtors) = Len(light_models)
                  /\ \A k \in 1..Len(light_models) : OllamaCtors[k].arg = light_models[k]
        /\ (\A i \in Idx : trace[i].op = "set_llm" => trace[i].res = "ok")
               => Cardinality({i \in Idx : trace[i].op = "set_llm"
                                           /\ IsLight(trace[i].arg)}) <= 1

C18_Witness ==
    /\ script = "simple_config"
    /\ Has(Probe(light_models[1], "False"))
    /\ Has(Ctor(light_models[2], "raise"))
    /\ Has(SetLlm(light_models[3], "raise"))
    /\ Has(Probe(light_models[4], "raise"))
    /\ Has(Return("setup_lightweight_ollama", "False"))

\* ------------------------------------------------------------------ C19

\* simple_config.py run on its own; the interpreter always takes the next step of
\* the script as long as every library call returns or raises
CfgInit == Init /\ script = "simple_config"

CfgSpec == CfgInit /\ [][simple_config]_vars /\ WF_vars(simple_config)

\* the availability probes made so far
Probes == SelectSeq(trace, LAMBDA e : e.op = "probe")

\* at most four Ollama probes, at most one Hugging Face probe, no model twice
C19_ProbeBudget ==
    /\ Cardinality({i \in Idx : trace[i].op = "probe" /\ IsLight(trace[i].arg)})
           <= Len(light_models)
    /\ Cardinality({i \in Idx : trace[i].op = "probe" /\ trace[i].arg = hf_model}) <= 1
    /\ \A i, j \in 1..Len(Probes) : i # j => Probes[i].arg # Probes[j].arg

\* C19: auto_setup always terminates (it returns in every run of simple_config.py
\* in which each library call returns or raises), having made at most four Ollama
\* availability probes and at most one Hugging Face probe and having probed no
\* model twice.
C19_AutoSetupTerminates ==
    []C19_ProbeBudget /\ <>Returned("auto_setup")

C19_Witness ==
    /\ script = "simple_config"
    /\ Returned("auto_setup")
    /\ Len(Probes) = Len(light_models) + 1

\* ------------------------------------------------------------------ C20

\* the chat loops: script, function, number of queries in its list
chat_loops ==
    {<<"demo", "demo_basic_queries", Len(demo_basic_queries_list)>>,
     <<"demo", "demo_visualizations", Len(demo_viz_queries)>>,
     <<"demo", "demo_advanced_analysis", Len(demo_advanced_queries)>>,
     <<"complete_workflow_demo", "demo_ai_powered_queries", Len(cw_queries)>>,
     <<"final_working_demo", "demo_ai_powered_queries", Len(fw_queries)>>,
     <<"comprehensive_test", "test_ai_powered_queries", Len(ct_queries)>>}

\* the index of the event that ended the call of f (its return or raise), or one
\* past the end of the run so far if f has not ended
EndOf(f) ==
    LET ends == {i \in Idx : trace[i].op \in {"return", "raise"} /\ trace[i].arg = f}
    IN  IF ends = {} THEN Len(trace) + 1 ELSE CHOOSE i \in ends : \A j \in ends : i <= j

\* the chat queries submitted during the call of f, in order
ChatsOf(f) ==
    LET c == CHOOSE i \in Idx : trace[i] = Call(f)
    IN  SelectSeq(SubSeq(trace, c + 1, EndOf(f) - 1), LAMBDA e : e.op = "chat")

\* C20: in every chat loop the queries are submitted in list order, each at most
\* once; a loop that has started submits every query of its list exactly once
\* before its function ends, whether or not earlier queries raised, and the
\* function then returns (no query's exception leaves it).
C20_EveryQuerySubmittedOnceInOrder ==
    \A l \in chat_loops :
        (script = l[1] /\ Has(Call(l[2])))
            => LET cs == ChatsOf(l[2])
               IN  /\ Len(cs) <= l[3]
                   /\ \A k \in 1..Len(cs) : cs[k].n = k
                   /\ (Len(cs) > 0 /\ EndOf(l[2]) <= Len(trace))
                          => /\ Len(cs) = l[3]
                             /\ trace[EndOf(l[2])].op = "return"

C20_Witness ==
    /\ script = "demo" /\ pc = "done"
    /\ Printed("Demo completed successfully!")
    /\ Len(ChatsOf("demo_visualizations")) = Len(demo_viz_queries)
    /\ ChatsOf("demo_visualizations")[1].res = "raise"
    /\ ChatsOf("demo_visualizations")[2].res = "ok"

\* ------------------------------------------------------------------ C21

\* C21: in complete_workflow_demo.demo_ai_powered_queries every query goes to one
\* of the two adapters, to the customer table exactly if its lower-cased text
\* contains "customer" and to the sales table otherwise; of the built-in list only
\* the fifth query goes to the customer table.
C21_QueryRoutedByCustomerWord ==
    script = "complete_workflow_demo" =>
        \A i \in Idx :
            trace[i].op = "chat" =>
                /\ trace[i].n \in 1..Len(cw_queries)
                /\ trace[i].arg \in {"customer_ap.chat", "sales_ap.chat"}
                /\ trace[i].arg = "customer_ap.chat"
                       <=> contains(lower(cw_queries[trace[i].n]),
                                    <<"c","u","s","t","o","m","e","r">>)
                /\ trace[i].arg = "customer_ap.chat" <=> trace[i].n = 5
                /\ \A j \in Idx : (trace[j].op = "chat" /\ trace[j].n = trace[i].n) => j = i

C21_Witness ==
    /\ script = "complete_workflow_demo" /\ pc = "done"
    /\ Has(Chat("sales_ap.chat", 4, "ok"))
    /\ Has(Chat("customer_ap.chat", 5, "ok"))

\* ------------------------------------------------------------------ C22

\* the eight tests of comprehensive_test.main that follow test_basic_functionality
ct_later_tests == SubSeq(ct_tests, 2, Len(ct_tests))

\* C22: in comprehensive_test.main the eight tests after test_basic_functionality
\* run if and only if it returned a dataframe: one of them is called only after it
\* returned a frame, a finished run in which it returned a frame has called all
\* eight, and a run in which it returned None calls none of them, the three that
\* take no dataframe argument included.
C22_LaterTestsIffDataframe ==
    script = "comprehensive_test" =>
        /\ \A k \in 1..Len(ct_later_tests) :
               Precedes(Return("test_basic_functionality", "frame"), Call(ct_later_tests[k]))
        /\ (pc = "done" /\ Has(Return("test_basic_functionality", "frame")))
               => \A k \in 1..Len(ct_later_tests) : Has(Call(ct_later_tests[k]))
        /\ Has(Return("test_basic_functionality", "None"))
               => /\ \A k \in 1..Len(ct_later_tests) : ~Has(Call(ct_later_tests[k]))
                  /\ pc \in {"after_basic", "finish", "done"}

C22_Witness ==
    /\ script = "comprehensive_test" /\ pc = "done"
    /\ Has(Return("test_basic_functionality", "None"))
    /\ Printed("All tests completed successfully!")
    /\ CallCount("test_utilities_and_helpers") = 0

\* ------------------------------------------------------------------ C23

\* the calls of comprehensive_test's test functions, in the order made
ct_test_calls ==
    SelectSeq(trace, LAMBDA e : e.op = "call"
                                /\ \E k \in 1..Len(ct_tests) : ct_tests[k] = e.arg)

\* C23: in comprehensive_test.py, once the dataframe was loaded the eight
\* following tests are called in their fixed order, each once; no exception
\* leaves a test function (it is caught inside and the function returns), main's
\* own handler is never reached, and a finished run has called and returned from
\* all eight whatever failures the tests reported.
C23_AllTestsRunDespiteFailures ==
    (script = "comprehensive_test" /\ Has(Return("test_basic_functionality", "frame")))
        => /\ Len(ct_test_calls) <= Len(ct_tests)
           /\ \A k \in 1..Len(ct_test_calls) : ct_test_calls[k].arg = ct_tests[k]
           /\ \A i \in Idx :
                  trace[i].op = "raise" => \A k \in 1..Len(ct_tests) : trace[i].arg # ct_tests[k]
           /\ pc # "except" /\ ~Printed("Test suite failed")
           /\ pc = "done"
                  => \A k \in 1..Len(ct_later_tests) :
                         /\ Has(Call(ct_later_tests[k]))
                         /\ Has(Return(ct_later_tests[k], "None"))

C23_Witness ==
    /\ script = "comprehensive_test" /\ pc = "done"
    /\ Printed("Advanced statistical analysis failed")
    /\ Printed("Performance optimization failed")
    /\ Has(Chat("df.chat", 2, "raise"))
    /\ Printed("Utilities passed")

\* ------------------------------------------------------------------ C24
\* The data generators and the three sources of their values: NumPy's global
\* generator, the generator of Python's `random` module, and the clock.

\* the number of states a pseudo-random generator has in the model
rng_states == 8
\* the last day the clock of the model reaches
last_day == 1
\* how many times the generator is called
n_calls == 2

\* a pseudo-random generator after k draws: the next state is a function of
\* the state and of nothing else
Advance(s, k) == (s + 3 * k) % rng_states

\* np.random.seed(42): the argument
seed == 42

\* seed(n): the state a generator is put in, a function of n alone
Seeded(n) == n % rng_states

\* randint(a, b) of the `random` module: an integer of a..b, drawn in state s
randint(s, a, b) == a + (s % (b - a + 1))

\* random.choice(seq), drawn in state s
random_choice(s, seq) == seq[(s % Len(seq)) + 1]

\* np.random.choice(n, size=size, replace=False): size distinct indices of
\* 0..n-1, drawn in state s
np_choice(s, n, size) == [k \in 1..size |-> (s + k - 1) % n]

\* demo.py: n_records, and the number of customer rows
demo_n_records == 100
demo_n_customers == 50

\* sales_data with its revenue column, the `random` module in state s at the
\* first row: five draws of the `random` module a row, the date from the
\* clock (prices in whole units)
demo_sales_data(s, today) ==
    [k \in 1..demo_n_records |->
        LET i == k - 1
            r == Advance(s, 5 * i)
            quantity == randint(Advance(r, 2), 1, 50)
            price == randint(Advance(r, 3), 10, 100)
        IN  [date |-> today - i,
             region |-> random_choice(r, <<"North", "South", "East", "West">>),
             product |-> random_choice(Advance(r, 1),
                            <<"Product A", "Product B", "Product C", "Product D">>),
             quantity |-> quantity,
             price |-> price,
             customer_id |-> randint(Advance(r, 4), 1, 50),
             revenue |-> quantity * price]]

\* customer_data, the `random` module in state s at the first row: three
\* draws of the `random` module a row
demo_customer_data(s, today) ==
    [k \in 1..demo_n_customers |->
        LET i == k - 1
            r == Advance(s, 3 * i)
        IN  [customer_id |-> i + 1,
             name |-> <<"Customer", i + 1>>,
             segment |-> random_choice(r, <<"Premium", "Standard", "Basic">>),
             join_date |-> today - randint(Advance(r, 1), 30, 365),
             total_purchases |-> randint(Advance(r, 2), 1, 20)]]

\* demo.create_sample_data: seeds NumPy's generator, then draws every value
\* of both tables from the `random` module and the dates from the clock
create_sample_data ==
    /\ script = "demo"
    /\ Len(tables) < n_calls
    /\ np_random_state' = Seeded(seed)
    /\ LET s == Advance(random_state, 5 * demo_n_records)
       IN  /\ tables' = Append(tables,
                   [by |-> "create_sample_data",
                    sales |-> demo_sales_data(random_state, now),
                    customers |-> demo_customer_data(s, now)])
           /\ random_state' = Advance(s, 3 * demo_n_customers)
    /\ UNCHANGED <<script, pc, trace, llm, ret, mi, qi, df, files, config, previous,
                   customer_id, duplicate_indices, now>>

\* comprehensive_test: the columns of `data`, the NumPy columns drawn one
\* after the other from NumPy's generator in state s, last_purchase_date from
\* the `random` module in state r and the clock (days, where the code keeps
\* the time of day too)
ct_data(s, r, today) ==
    LET n == n_records
        col(k) == [i \in 1..n |-> Advance(s, k * n + i - 1)]
    IN  [customer_id |-> [i \in 1..n |-> i],
         name |-> [i \in 1..n |-> <<"Customer_", i>>],
         age |-> [i \in 1..n |-> randint(col(0)[i], 18, 79)],
         income |-> col(1),
         credit_score |-> [i \in 1..n |-> randint(col(2)[i], 300, 849)],
         purchase_amount |-> col(3),
         satisfaction_rating |-> [i \in 1..n |-> 1 + (col(4)[i] % 5)],
         region |-> [i \in 1..n |-> random_choice(col(5)[i], <<"North", "South", "East", "West">>)],
         product_category |-> [i \in 1..n |-> col(6)[i] % 5],
         membership_type |-> [i \in 1..n |-> random_choice(col(7)[i], <<"Basic", "Premium", "VIP">>)],
         last_purchase_date |-> [i \in 1..n |-> today - randint(Advance(r, i - 1), 1, 365)],
         total_orders |-> col(8),
         is_premium |-> [i \in 1..n |-> col(9)[i] % 2 = 0]]

\* for idx in indices: column[idx] = value(idx), Python's indices
RECURSIVE SetItems(_, _, _)
SetItems(column, indices, value) ==
    IF indices = <<>> THEN column
    ELSE SetItems(SetItem(column, Head(indices), value[1]), Tail(indices), Tail(value))

\* for idx in duplicate_indices: customer_id[idx] = customer_id[idx - 1]
RECURSIVE Duplicated(_, _)
Duplicated(column, indices) ==
    IF indices = <<>> THEN column
    ELSE Duplicated(SetItem(column, Head(indices), GetItem(column, Head(indices) - 1)),
                    Tail(indices))

\* comprehensive_test.create_comprehensive_sample_data: seeds NumPy's
\* generator and draws from it, except for last_purchase_date
create_comprehensive_sample_data ==
    /\ script = "comprehensive_test"
    /\ Len(tables) < n_calls
    /\ LET n == n_records
           s0 == Seeded(seed)
           data == ct_data(s0, random_state, now)
           s1 == Advance(s0, 10 * n)
           missing_indices == np_choice(s1, n, n \div 10)
           s2 == Advance(s1, 1)
           outlier_indices == np_choice(s2, n, n \div 20)
           s3 == Advance(s2, 1)
           outliers == [k \in 1..(n \div 20) |-> Advance(s3, k - 1)]
           s4 == Advance(s3, n \div 20)
           duplicates == np_choice(s4, n, (n * duplicate_percent) \div 100)
           frame == [data EXCEPT
                       !.income = SetItems(@, missing_indices,
                                           [k \in 1..(n \div 10) |-> "nan"]),
                       !.purchase_amount = SetItems(@, outlier_indices, outliers),
                       !.customer_id = Duplicated(@, duplicates)]
       IN  /\ tables' = Append(tables,
                   [by |-> "create_comprehensive_sample_data",
                    sales |-> frame,
                    customers |-> <<>>])
           /\ np_random_state' = Advance(s4, 1)
           /\ random_state' = Advance(random_state, n)
    /\ UNCHANGED <<script, pc, trace, llm, ret, mi, qi, df, files, config, previous,
                   customer_id, duplicate_indices, now>>

\* the clock passes midnight
midnight ==
    /\ now < last_day
    /\ now' = now + 1
    /\ UNCHANGED <<script, pc, trace, llm, ret, mi, qi, df, files, config, previous,
                   customer_id, duplicate_indices, np_random_state, random_state, tables>>

\* the script is run again: a new interpreter, whose two generators start in
\* states no call of this program has chosen
later_run ==
    /\ tables # <<>>
    /\ Len(tables) < n_calls
    /\ np_random_state' \in 0..(rng_states - 1)
    /\ random_state' \in 0..(rng_states - 1)
    /\ UNCHANGED <<script, pc, trace, llm, ret, mi, qi, df, files, config, previous,
                   customer_id, duplicate_indices, now, tables>>

\* a script with a data generator starts: nothing has seeded either generator
GenInit ==
    /\ script \in {"demo", "comprehensive_test"}
    /\ pc = "start"
    /\ trace = <<>>
    /\ llm = "none"
    /\ ret = "None"
    /\ mi = 0
    /\ qi = 0
    /\ df = "unset"
    /\ files = {}
    /\ config = default_config
    /\ previous = "none"
    /\ customer_id = <<>>
    /\ duplicate_indices = <<>>
    /\ np_random_state \in 0..(rng_states - 1)
    /\ random_state \in 0..(rng_states - 1)
    /\ now \in 0..last_day
    /\ tables = <<>>

GenNext ==
    \/ create_sample_data
    \/ create_comprehensive_sample_data
    \/ midnight
    \/ later_run

GenSpec == GenInit /\ [][GenNext]_vars

\* C24: two calls of the same data generator, within one run or in two runs,
\* return identical sales and customer tables.
C24_SampleDataReproducible ==
    \A i \in 1..Len(tables) : \A j \in 1..Len(tables) :
        tables[i].by = tables[j].by => tables[i] = tables[j]

====
